---- MODULE Spec2Model ----
(***************************************************************************)
(* The ReAct reasoning loop of BaseAgent (src/src/agent/base.py): the      *)
(* action parser _parse_action, the tool dispatch _execute_action, the     *)
(* reflection pass _reflect, and the two drivers run() and run_stream().   *)
(*                                                                         *)
(* Text is a sequence of one-character strings, so that the marker         *)
(* searches, the regular expressions and the trimming of the source are     *)
(* computed character by character.                                         *)
(***************************************************************************)
EXTENDS Naturals, Integers, Sequences, FiniteSets, TLC

(***************************************************************************)
(* Text helpers: the Python string operations the source relies on.        *)
(***************************************************************************)

\* The literal markers of the text protocol.
FinalMarker == <<"F", "i", "n", "a", "l", " ", "A", "n", "s", "w", "e", "r", ":">>

ActionMarker == <<"A", "c", "t", "i", "o", "n", ":">>

InputMarker == <<"A", "c", "t", "i", "o", "n", " ", "I", "n", "p", "u", "t", ":">>

ThoughtMarker == <<"T", "h", "o", "u", "g", "h", "t", ":">>

\* The sentinel _parse_action returns as the action name of a final answer.
FinalSentinel == <<"_", "_", "f", "i", "n", "a", "l", "_", "_">>

\* Python's \s on the characters the model uses.
Whitespace == {" ", "\n"}

\* The characters of the model's alphabet that Python's \w does not match.
NonWord == Whitespace \cup {":", "{", "}", "\"", ",", ".", "-"}

IsWordChar(c) == c \notin NonWord

\* text[i:] with a 1-based start.
Suffix(text, i) == SubSeq(text, i, Len(text))

\* Whether pat occurs in text starting at (1-based) position i.
IsAt(text, pat, i) ==
    /\ i >= 1
    /\ i + Len(pat) - 1 <= Len(text)
    /\ SubSeq(text, i, i + Len(pat) - 1) = pat

\* str.find: the least position at which pat occurs, 0 when it does not.
Find(text, pat) ==
    LET hits == {i \in 1..Len(text) : IsAt(text, pat, i)}
    IN  IF hits = {} THEN 0 ELSE CHOOSE i \in hits : \A j \in hits : i <= j

\* `pat in text`.
Contains(text, pat) == Find(text, pat) # 0

\* The number of leading whitespace characters of text.
LeadingSpace(text) ==
    LET stops == {i \in 1..Len(text) : text[i] \notin Whitespace}
    IN  IF stops = {} THEN Len(text)
        ELSE (CHOOSE i \in stops : \A j \in stops : i <= j) - 1

\* The number of trailing whitespace characters of text.
TrailingSpace(text) ==
    LET stops == {i \in 1..Len(text) : text[i] \notin Whitespace}
    IN  IF stops = {} THEN Len(text)
        ELSE Len(text) - (CHOOSE i \in stops : \A j \in stops : i >= j)

\* str.lstrip().
LStrip(text) == Suffix(text, LeadingSpace(text) + 1)

\* str.strip().
Strip(text) ==
    IF LeadingSpace(text) = Len(text) THEN <<>>
    ELSE SubSeq(text, LeadingSpace(text) + 1, Len(text) - TrailingSpace(text))

\* The length of the longest run of \w characters at the start of text.
WordRun(text) ==
    LET stops == {i \in 1..Len(text) : ~IsWordChar(text[i])}
    IN  IF stops = {} THEN Len(text)
        ELSE (CHOOSE i \in stops : \A j \in stops : i <= j) - 1

LowerLetters == <<"a", "b", "c", "d", "e", "f", "g", "h", "i", "j", "k", "l", "m", "n", "o", "p", "q", "r", "s", "t", "u", "v", "w", "x", "y", "z">>

UpperLetters == <<"A", "B", "C", "D", "E", "F", "G", "H", "I", "J", "K", "L", "M", "N", "O", "P", "Q", "R", "S", "T", "U", "V", "W", "X", "Y", "Z">>

UpperChar(c) ==
    IF \E i \in 1..Len(LowerLetters) : LowerLetters[i] = c
    THEN UpperLetters[CHOOSE i \in 1..Len(LowerLetters) : LowerLetters[i] = c]
    ELSE c

\* str.upper().
Upper(text) == [i \in 1..Len(text) |-> UpperChar(text[i])]

\* Optional values (Python's None).
None == [isNone |-> TRUE, text |-> <<>>]

Some(t) == [isNone |-> FALSE, text |-> t]

(***************************************************************************)
(* BaseAgent._parse_action                                                 *)
(***************************************************************************)

\* The position of the leftmost match of re.search(r"Final Answer:\s*(.+)",
\* response, re.DOTALL), 0 when there is none: (.+) needs at least one
\* character after the marker.
FinalMatchPos(response) ==
    LET hits == {i \in 1..Len(response) :
                    /\ IsAt(response, FinalMarker, i)
                    /\ i + Len(FinalMarker) <= Len(response)}
    IN  IF hits = {} THEN 0 ELSE CHOOSE i \in hits : \A j \in hits : i <= j

\* group(1) of that match on the text that follows the marker: \s* is greedy
\* and gives one character back when only whitespace follows the marker.
FinalGroup(rest) ==
    IF LeadingSpace(rest) < Len(rest)
    THEN Suffix(rest, LeadingSpace(rest) + 1)
    ELSE <<rest[Len(rest)]>>

\* The position of the leftmost match of re.search(r"Action:\s*(\w+)",
\* response), 0 when there is none.
ActionMatchPos(response) ==
    LET hits == {i \in 1..Len(response) :
                    /\ IsAt(response, ActionMarker, i)
                    /\ LET rest == Suffix(response, i + Len(ActionMarker))
                       IN  /\ LeadingSpace(rest) < Len(rest)
                           /\ IsWordChar(rest[LeadingSpace(rest) + 1])}
    IN  IF hits = {} THEN 0 ELSE CHOOSE i \in hits : \A j \in hits : i <= j

\* group(1) of that match: the run of \w characters after the whitespace.
ActionGroup(response, pos) ==
    LET rest == LStrip(Suffix(response, pos + Len(ActionMarker)))
    IN  SubSeq(rest, 1, WordRun(rest))

\* The brace scan without the depth count: it stops at the first closing
\* brace.
BraceEndFirstClose(remaining, i, brace_count) ==
    LET closes == {k \in i..Len(remaining) : remaining[k] = "}"}
    IN  IF closes = {} THEN 0
        ELSE CHOOSE k \in closes : \A j \in closes : k <= j

\* The brace-depth scan over remaining from index i with the given count:
\* the 1-based index of the closing brace that brings the depth to 0, or 0.
RECURSIVE BraceEnd(_, _, _)
BraceEnd(remaining, i, brace_count) ==
    IF i > Len(remaining) THEN 0
    ELSE IF remaining[i] = "{" THEN BraceEnd(remaining, i + 1, brace_count + 1)
    ELSE IF remaining[i] = "}"
         THEN IF brace_count - 1 = 0 THEN i
              ELSE BraceEnd(remaining, i + 1, brace_count - 1)
    ELSE BraceEnd(remaining, i + 1, brace_count)

\* input_match: the object text extracted after `Action Input:`, or None.
InputMatch(response) ==
    IF ~Contains(response, InputMarker) THEN None
    ELSE LET input_start == Find(response, InputMarker) + Len(InputMarker)
             remaining == Strip(Suffix(response, input_start))
         IN  IF Len(remaining) >= 1 /\ remaining[1] = "{"
             THEN LET json_end == BraceEnd(remaining, 1, 0)
                  IN  IF json_end > 0 THEN Some(SubSeq(remaining, 1, json_end))
                      ELSE None
             ELSE None

(***************************************************************************)
(* json.loads, on the texts of the model: objects, arrays, strings without  *)
(* escape sequences, numbers and the literals true, false and null.        *)
(***************************************************************************)

JsonSpace == {" ", "\t", "\n", "\r"}

Digits == {"0", "1", "2", "3", "4", "5", "6", "7", "8", "9"}

\* Decoded values. A number is kept as its literal; an object is the list of
\* its items in insertion order, one per key.
JsonNull == [type |-> "null", text |-> <<>>, items |-> <<>>]

JsonBool(text) == [type |-> "bool", text |-> text, items |-> <<>>]

JsonString(text) == [type |-> "string", text |-> text, items |-> <<>>]

JsonNumber(text) == [type |-> "number", text |-> text, items |-> <<>>]

JsonObject(items) == [type |-> "object", text |-> <<>>, items |-> items]

\* A list: items are its elements.
JsonArray(items) == [type |-> "array", text |-> <<>>, items |-> items]

\* dict[key] = value: a repeated key keeps its place and takes the new value.
Put(items, key, value) ==
    IF \E k \in 1..Len(items) : items[k].key = key
    THEN [k \in 1..Len(items) |->
             IF items[k].key = key THEN [key |-> key, value |-> value]
             ELSE items[k]]
    ELSE Append(items, [key |-> key, value |-> value])

\* The outcome of decoding at a position: the value and the position after
\* it, or (ok = FALSE) a JSONDecodeError.
Decoded(value, end) == [ok |-> TRUE, value |-> value, end |-> end]

JSONDecodeError == [ok |-> FALSE, value |-> JsonNull, end |-> 0]

RECURSIVE SkipSpace(_, _)
SkipSpace(s, i) ==
    IF i <= Len(s) /\ s[i] \in JsonSpace THEN SkipSpace(s, i + 1) ELSE i

\* The end of the run of digits that starts at i (i itself if there is none).
RECURSIVE DigitsEnd(_, _)
DigitsEnd(s, i) ==
    IF i <= Len(s) /\ s[i] \in Digits THEN DigitsEnd(s, i + 1) ELSE i

\* A string that opens at i: up to the next quote; a control character
\* inside it is an error.
ScanString(s, i) ==
    LET quotes == {k \in (i + 1)..Len(s) : s[k] = "\""}
    IN  IF quotes = {} THEN JSONDecodeError
        ELSE LET close == CHOOSE k \in quotes : \A j \in quotes : k <= j
                 body == SubSeq(s, i + 1, close - 1)
             IN  IF \E k \in 1..Len(body) : body[k] \in {"\n", "\t", "\r", "\\"}
                 THEN JSONDecodeError
                 ELSE Decoded(JsonString(body), close + 1)

\* A number at i: -?(0|[1-9]\d*)(\.\d+)?([eE][-+]?\d+)?
ScanNumber(s, i) ==
    LET first == IF i <= Len(s) /\ s[i] = "-" THEN i + 1 ELSE i
        int_end == IF first <= Len(s) /\ s[first] = "0" THEN first + 1
                   ELSE DigitsEnd(s, first)
        frac_end == IF /\ int_end <= Len(s) /\ s[int_end] = "."
                       /\ DigitsEnd(s, int_end + 1) > int_end + 1
                    THEN DigitsEnd(s, int_end + 1) ELSE int_end
        exp_from == IF /\ frac_end + 1 <= Len(s) /\ s[frac_end] \in {"e", "E"}
                       /\ s[frac_end + 1] \in {"-", "+"}
                    THEN frac_end + 2 ELSE frac_end + 1
        exp_end == IF /\ frac_end <= Len(s) /\ s[frac_end] \in {"e", "E"}
                      /\ DigitsEnd(s, exp_from) > exp_from
                   THEN DigitsEnd(s, exp_from) ELSE frac_end
    IN  IF int_end = first THEN JSONDecodeError
        ELSE Decoded(JsonNumber(SubSeq(s, i, exp_end - 1)), exp_end)

RECURSIVE ScanValue(_, _)
RECURSIVE ScanMembers(_, _, _)
RECURSIVE ScanElements(_, _, _)

\* The elements of an array from the start of an element at i.
ScanElements(s, i, items) ==
    LET v == ScanValue(s, i) IN
    IF ~v.ok THEN JSONDecodeError
    ELSE LET e == SkipSpace(s, v.end)
             acc == Append(items, v.value)
         IN  IF e > Len(s) THEN JSONDecodeError
             ELSE IF s[e] = "]" THEN Decoded(JsonArray(acc), e + 1)
             ELSE IF s[e] = ","
             THEN ScanElements(s, SkipSpace(s, e + 1), acc)
             ELSE JSONDecodeError

\* The members of an object from the quote of a key at i, items so far.
ScanMembers(s, i, items) ==
    IF i > Len(s) \/ s[i] # "\"" THEN JSONDecodeError
    ELSE LET k == ScanString(s, i) IN
         IF ~k.ok THEN JSONDecodeError
         ELSE LET c == SkipSpace(s, k.end) IN
              IF c > Len(s) \/ s[c] # ":" THEN JSONDecodeError
              ELSE LET v == ScanValue(s, SkipSpace(s, c + 1)) IN
                   IF ~v.ok THEN JSONDecodeError
                   ELSE LET e == SkipSpace(s, v.end)
                            acc == Put(items, k.value.text, v.value)
                        IN  IF e > Len(s) THEN JSONDecodeError
                            ELSE IF s[e] = "}"
                            THEN Decoded(JsonObject(acc), e + 1)
                            ELSE IF s[e] = ","
                            THEN ScanMembers(s, SkipSpace(s, e + 1), acc)
                            ELSE JSONDecodeError

\* JSONDecoder.raw_decode: the value that starts at i.
ScanValue(s, i) ==
    IF i > Len(s) THEN JSONDecodeError
    ELSE IF s[i] = "\"" THEN ScanString(s, i)
    ELSE IF s[i] = "{"
    THEN LET j == SkipSpace(s, i + 1)
         IN  IF j <= Len(s) /\ s[j] = "}" THEN Decoded(JsonObject(<<>>), j + 1)
             ELSE ScanMembers(s, j, <<>>)
    ELSE IF s[i] = "["
    THEN LET j == SkipSpace(s, i + 1)
         IN  IF j <= Len(s) /\ s[j] = "]" THEN Decoded(JsonArray(<<>>), j + 1)
             ELSE ScanElements(s, j, <<>>)
    ELSE IF IsAt(s, <<"t", "r", "u", "e">>, i)
    THEN Decoded(JsonBool(<<"t", "r", "u", "e">>), i + 4)
    ELSE IF IsAt(s, <<"f", "a", "l", "s", "e">>, i)
    THEN Decoded(JsonBool(<<"f", "a", "l", "s", "e">>), i + 5)
    ELSE IF IsAt(s, <<"n", "u", "l", "l">>, i) THEN Decoded(JsonNull, i + 4)
    ELSE IF ScanNumber(s, i).ok THEN ScanNumber(s, i)
    ELSE IF IsAt(s, <<"N", "a", "N">>, i)
    THEN Decoded(JsonNumber(<<"N", "a", "N">>), i + 3)
    ELSE IF IsAt(s, <<"I", "n", "f", "i", "n", "i", "t", "y">>, i)
    THEN Decoded(JsonNumber(SubSeq(s, i, i + 7)), i + 8)
    ELSE IF IsAt(s, <<"-", "I", "n", "f", "i", "n", "i", "t", "y">>, i)
    THEN Decoded(JsonNumber(SubSeq(s, i, i + 8)), i + 9)
    ELSE JSONDecodeError

\* json.loads(s): one value, with nothing but white space around it.
JsonLoads(s) ==
    LET v == ScanValue(s, SkipSpace(s, 1))
    IN  IF v.ok /\ SkipSpace(s, v.end) > Len(s) THEN v ELSE JSONDecodeError


(***************************************************************************)
(* The lenient scan of _parse_action, used when json.loads fails           *)
(***************************************************************************)

PairMatched(key, value, end) ==
    [matched |-> TRUE, key |-> key, value |-> value, end |-> end]

NoPair == [matched |-> FALSE, key |-> <<>>, value |-> JsonNull, end |-> 0]

\* The match at position i of "(\w+)":\s* followed by a quoted string
\* "([^"]*)", a number (\d+(?:\.\d+)?) or, in any case, (true|false). A
\* number is kept as its literal, a boolean as val.lower() == "true".
PairMatch(s, i, kind) ==
    LET key_end == i + 1 + WordRun(Suffix(s, i + 1))
        key == SubSeq(s, i + 1, key_end - 1)
        v == SkipSpace(s, key_end + 2)
        quotes == {q \in (v + 1)..Len(s) : s[q] = "\""}
        close == CHOOSE q \in quotes : \A x \in quotes : q <= x
        int_end == DigitsEnd(s, v)
        num_end == IF /\ int_end <= Len(s) /\ s[int_end] = "."
                      /\ DigitsEnd(s, int_end + 1) > int_end + 1
                   THEN DigitsEnd(s, int_end + 1) ELSE int_end
    IN  IF ~(/\ i <= Len(s) /\ s[i] = "\"" /\ key_end > i + 1
             /\ IsAt(s, <<"\"", ":">>, key_end))
        THEN NoPair
        ELSE IF kind = "string"
        THEN IF v <= Len(s) /\ s[v] = "\"" /\ quotes # {}
             THEN PairMatched(key, JsonString(SubSeq(s, v + 1, close - 1)),
                              close + 1)
             ELSE NoPair
        ELSE IF kind = "number"
        THEN IF int_end > v
             THEN PairMatched(key, JsonNumber(SubSeq(s, v, num_end - 1)), num_end)
             ELSE NoPair
        ELSE IF IsAt(Upper(s), <<"T", "R", "U", "E">>, v)
        THEN PairMatched(key, JsonBool(<<"t", "r", "u", "e">>), v + 4)
        ELSE IF IsAt(Upper(s), <<"F", "A", "L", "S", "E">>, v)
        THEN PairMatched(key, JsonBool(<<"f", "a", "l", "s", "e">>), v + 5)
        ELSE NoPair

\* re.findall of one of the three patterns from position p on: the (key,
\* value) pairs of the successive matches.
RECURSIVE FindPairs(_, _, _)
FindPairs(s, p, kind) ==
    LET starts == {i \in p..Len(s) : PairMatch(s, i, kind).matched} IN
    IF starts = {} THEN <<>>
    ELSE LET i == CHOOSE x \in starts : \A y \in starts : x <= y
             m == PairMatch(s, i, kind)
         IN  <<[key |-> m.key, value |-> m.value]>> \o FindPairs(s, m.end, kind)

\* dict(pairs): every pair is stored in turn.
RECURSIVE DictOf(_, _)
DictOf(items, pairs) ==
    IF pairs = <<>> THEN items
    ELSE DictOf(Put(items, pairs[1].key, pairs[1].value), Suffix(pairs, 2))

\* for key, val in pairs: if key not in action_input: action_input[key] = val
RECURSIVE AddMissing(_, _)
AddMissing(items, pairs) ==
    IF pairs = <<>> THEN items
    ELSE AddMissing(
             IF \E k \in 1..Len(items) : items[k].key = pairs[1].key THEN items
             ELSE Append(items, pairs[1]),
             Suffix(pairs, 2))

\* The except branch: the map of the string pairs, then the numeric and
\* the boolean pairs for the keys still missing.
LenientInput(input_text) ==
    AddMissing(AddMissing(DictOf(<<>>, FindPairs(input_text, 1, "string")),
                          FindPairs(input_text, 1, "number")),
               FindPairs(input_text, 1, "bool"))

\* A parser that supplies a parameter when the output has no object.
ActionInputFillsDefault(json_str) ==
    IF json_str = <<>>
    THEN <<[key |-> <<"q", "u", "e", "r", "y">>, value |-> JsonString(<<>>)]>>
    ELSE IF JsonLoads(json_str).ok THEN JsonLoads(json_str).value.items
    ELSE LenientInput(json_str)

\* action_input for the extracted object text: {} without one, json.loads
\* of it, or the lenient scan when json.loads raises JSONDecodeError.
ActionInput(json_str) ==
    IF json_str = <<>> THEN <<>>
    ELSE IF JsonLoads(json_str).ok THEN JsonLoads(json_str).value.items
    ELSE LenientInput(json_str)

\* The second component of the parser's result: the final answer text, or
\* the parameter map of an action, held as the object text it is decoded
\* from (ActionInput gives its entries; empty text: the empty map), or
\* nothing at all.
FinalInput(t) == [kind |-> "text", text |-> t]

DictInput(json_str) == [kind |-> "dict", text |-> json_str]

NoInput == [kind |-> "none", text |-> <<>>]

\* _parse_action: (action_name, action_input), ("__final__", answer) or
\* (None, None).
ParseAction(response) ==
    IF FinalMatchPos(response) # 0
    THEN [action_name |-> Some(FinalSentinel),
          action_input |->
              FinalInput(Strip(FinalGroup(
                  Suffix(response, FinalMatchPos(response) + Len(FinalMarker)))))]
    ELSE IF ActionMatchPos(response) # 0
    THEN [action_name |-> Some(ActionGroup(response, ActionMatchPos(response))),
          action_input |->
              IF InputMatch(response).isNone THEN DictInput(<<>>)
              ELSE DictInput(InputMatch(response).text)]
    ELSE [action_name |-> None, action_input |-> NoInput]

\* The thought text of a step: group(1) of
\* re.search(r"Thought:\s*(.+?)(?=Action:|Final Answer:|$)", llm_output,
\* re.DOTALL), stripped, or the whole output when there is no match.
ThoughtMatchPos(llm_output) ==
    LET hits == {i \in 1..Len(llm_output) :
                    /\ IsAt(llm_output, ThoughtMarker, i)
                    /\ i + Len(ThoughtMarker) <= Len(llm_output)}
    IN  IF hits = {} THEN 0 ELSE CHOOSE i \in hits : \A j \in hits : i <= j

\* Whether the lookahead (?=Action:|Final Answer:|$) holds after k characters
\* of body ($ also matches just before a final newline).
ThoughtStop(body, k) ==
    \/ IsAt(body, ActionMarker, k + 1)
    \/ IsAt(body, FinalMarker, k + 1)
    \/ k = Len(body)
    \/ (k = Len(body) - 1 /\ body[Len(body)] = "\n")

ThoughtGroup(rest) ==
    IF LeadingSpace(rest) = Len(rest) THEN <<rest[Len(rest)]>>
    ELSE LET body == LStrip(rest)
             k == CHOOSE n \in 1..Len(body) :
                     /\ ThoughtStop(body, n)
                     /\ \A j \in 1..(n - 1) : ~ThoughtStop(body, j)
         IN  SubSeq(body, 1, k)

ThoughtOf(llm_output) ==
    IF ThoughtMatchPos(llm_output) = 0 THEN llm_output
    ELSE Strip(ThoughtGroup(
             Suffix(llm_output, ThoughtMatchPos(llm_output) + Len(ThoughtMarker))))

(***************************************************************************)
(* The orchestrator: configuration, registry, collaborators.               *)
(***************************************************************************)

\* The largest max_iterations a configuration of the model takes.
MaxIterations == 2

\* The largest max_iterations of the configurations with two runs in flight.
MaxIterationsConc == 1

\* The two run() / run_stream() calls the model follows on one agent.
Runs == {1, 2}

Modes == {"run", "stream"}

\* Tool names: a registered one and one no registry of the model holds.
ToolS == <<"s">>

ToolU == <<"u">>

\* Outputs of the reasoning model.
OutFinal == <<"F", "i", "n", "a", "l", " ", "A", "n", "s", "w", "e", "r", ":", " ", "x">>

OutFinalBlank == <<"F", "i", "n", "a", "l", " ", "A", "n", "s", "w", "e", "r", ":", " ">>

OutMarkerOnly == <<"F", "i", "n", "a", "l", " ", "A", "n", "s", "w", "e", "r", ":">>

OutActionS == <<"A", "c", "t", "i", "o", "n", ":", " ", "s">>

OutActionU == <<"A", "c", "t", "i", "o", "n", ":", " ", "u">>

OutThoughtAction == <<"T", "h", "o", "u", "g", "h", "t", ":", " ", "a", "\n", "A", "c", "t", "i", "o", "n", ":", " ", "s">>

OutNoAction == <<"h", "m">>

ModelOutputs ==
    {OutFinal, OutFinalBlank, OutMarkerOnly, OutActionS, OutActionU,
     OutThoughtAction, OutNoAction}

\* What a tool's execute() can do: return a ToolResult (success or not, with
\* a text output or with output None), or raise.
ToolOutcomes ==
    {[kind |-> "success", output |-> Some(<<"o">>), error |-> None],
     [kind |-> "success", output |-> None, error |-> None],
     [kind |-> "failure", output |-> Some(<<>>), error |-> Some(<<"e">>)],
     [kind |-> "raise", output |-> None, error |-> Some(<<"x">>)]}

\* Replies of the reflection model call (or its failure).
CriticOutcomes ==
    {[kind |-> "reply", text |-> <<"A", "P", "P", "R", "O", "V", "E", "D">>],
     [kind |-> "reply", text |-> <<"R", "E", "T", "R", "Y", ":", " ", "r">>],
     [kind |-> "reply", text |-> <<"R", "E", "T", "R", "Y", ":", " ">>],
     [kind |-> "reply", text |-> <<"o", "k">>],
     [kind |-> "raise", text |-> <<>>]}

VARIABLES
    config,           \* self.config: max_iterations, enable_reflection, verbose
    tools,            \* self.tools: the registered tool names
    model_outputs,    \* the outputs the reasoning model may produce
    tool_outcomes,    \* the behaviours the registered tools may show
    state,            \* self.state
    thought_history,  \* self.thought_history: the list object it refers to
    heap,             \* the list objects: heap[id] is the list's content
    frames,           \* the locals of each run() / run_stream() call
    results,          \* the AgentResponse each call returned, if any
    response,         \* the text handed to the parser (parser specification)
    parsed,           \* the parser's result for it, once computed
    registry,         \* the tool tables: BaseAgent.tools and a ToolRegistry
    plan,             \* the last call of _create_plan and what it returned
    analysis,         \* the last call of IntentRouter.analyze_intent
    smart,            \* the smart_query() call of the orchestrator
    breaker           \* a CircuitBreaker and the requests of its callers

vars ==
    <<config, tools, model_outputs, tool_outcomes, state, thought_history,
      heap, frames, results, response, parsed, registry, plan, analysis,
      smart, breaker>>

(***************************************************************************)
(* BaseAgent._execute_action and BaseAgent._reflect                        *)
(***************************************************************************)

\* Observation texts. kind tells which text of the source it is; text is the
\* part of it that varies (a tool's output, an error, a tool name).
Obs(kind, text) == [kind |-> kind, text |-> text]

NullObs == Obs("null", <<>>)

\* result.output when the tool returned output None.
NoneObs == Obs("None", <<>>)

\* "错误: 未知工具 '<action_name>'，可用工具: [...]"
UnknownToolObs(action_name) == Obs("unknown_tool", action_name)

\* "工具执行失败: <result.error>"
ToolFailedObs(error) == Obs("tool_failed", error)

\* "工具执行异常: <str(e)>"
ToolExceptionObs(error) == Obs("tool_exception", error)

\* "已得出最终答案"
FinalReachedObs == Obs("final_reached", <<>>)

\* "未识别到有效动作，请按格式输出 Action 或 Final Answer"
NoActionObs == Obs("no_action", <<>>)

\* _execute_action without the registry lookup: any name is executed.
ExecuteActionNoLookup(action_name, outcome) ==
    IF outcome.kind = "success"
    THEN [observation_text |->
              IF outcome.output.isNone THEN NoneObs
              ELSE Obs("output", outcome.output.text),
          structured_data |-> "success", called |-> TRUE]
    ELSE IF outcome.kind = "failure"
    THEN [observation_text |-> ToolFailedObs(outcome.error.text),
          structured_data |-> "failure", called |-> TRUE]
    ELSE [observation_text |-> ToolExceptionObs(outcome.error.text),
          structured_data |-> "exception", called |-> TRUE]

\* _execute_action without the result.success test: a failed result's
\* output is taken as the observation.
ExecuteActionIgnoresFailure(action_name, outcome) ==
    IF action_name \notin tools
    THEN [observation_text |-> UnknownToolObs(action_name),
          structured_data |-> "error", called |-> FALSE]
    ELSE IF outcome.kind \in {"success", "failure"}
    THEN [observation_text |->
              IF outcome.output.isNone THEN NoneObs
              ELSE Obs("output", outcome.output.text),
          structured_data |-> "success", called |-> TRUE]
    ELSE [observation_text |-> ToolExceptionObs(outcome.error.text),
          structured_data |-> "exception", called |-> TRUE]

\* _execute_action that answers for a registered tool without running it.
ExecuteActionSkipsTool(action_name, outcome) ==
    IF action_name \notin tools
    THEN [observation_text |-> UnknownToolObs(action_name),
          structured_data |-> "error", called |-> FALSE]
    ELSE [observation_text |-> Obs("output", <<>>),
          structured_data |-> "success", called |-> FALSE]

\* _execute_action, given what the tool does when it is called:
\* (tool_output, structured_data); called tells whether execute() ran.
ExecuteAction(action_name, outcome) ==
    IF action_name \notin tools
    THEN [observation_text |-> UnknownToolObs(action_name),
          structured_data |-> "error", called |-> FALSE]
    ELSE IF outcome.kind = "success"
    THEN [observation_text |->
              IF outcome.output.isNone THEN NoneObs
              ELSE Obs("output", outcome.output.text),
          structured_data |-> "success", called |-> TRUE]
    ELSE IF outcome.kind = "failure"
    THEN [observation_text |-> ToolFailedObs(outcome.error.text),
          structured_data |-> "failure", called |-> TRUE]
    ELSE [observation_text |-> ToolExceptionObs(outcome.error.text),
          structured_data |-> "exception", called |-> TRUE]

\* observation_text[:n] raises TypeError when the text is None.
SliceRaises(observation_text) == observation_text.kind = "None"

ApprovedMarker == <<"A", "P", "P", "R", "O", "V", "E", "D">>

RetryMarker == <<"R", "E", "T", "R", "Y", ":">>

\* The position of the leftmost match of re.search(r"RETRY:\s*(.+)", result,
\* re.DOTALL), 0 when there is none.
RetryMatchPos(result) ==
    LET hits == {i \in 1..Len(result) :
                    /\ IsAt(result, RetryMarker, i)
                    /\ i + Len(RetryMarker) <= Len(result)}
    IN  IF hits = {} THEN 0 ELSE CHOOSE i \in hits : \A j \in hits : i <= j

\* A critic whose failed model call counts as a rejection.
ReflectFailClosed(critic) ==
    IF critic.kind = "raise"
    THEN [approved |-> FALSE, suggestion |-> Some(<<"x">>)]
    ELSE IF Contains(Upper(critic.text), ApprovedMarker)
    THEN [approved |-> TRUE, suggestion |-> None]
    ELSE IF RetryMatchPos(critic.text) # 0
    THEN [approved |-> FALSE,
          suggestion |-> Some(Strip(FinalGroup(
              Suffix(critic.text, RetryMatchPos(critic.text) + Len(RetryMarker)))))]
    ELSE [approved |-> TRUE, suggestion |-> None]

\* _reflect once reflection is enabled: (approved, suggestion).
Reflect(critic) ==
    IF critic.kind = "raise" THEN [approved |-> TRUE, suggestion |-> None]
    ELSE IF Contains(Upper(critic.text), ApprovedMarker)
    THEN [approved |-> TRUE, suggestion |-> None]
    ELSE IF RetryMatchPos(critic.text) # 0
    THEN [approved |-> FALSE,
          suggestion |-> Some(Strip(FinalGroup(
              Suffix(critic.text, RetryMatchPos(critic.text) + Len(RetryMarker)))))]
    ELSE [approved |-> TRUE, suggestion |-> None]

(***************************************************************************)
(* BaseAgent.run and BaseAgent.run_stream                                  *)
(***************************************************************************)

\* A step record that loses the parsed action name.
ThoughtStepWithoutAction(step, thought, action, action_input) ==
    [step |-> step, thought |-> thought, action |-> None,
     action_input |-> action_input, observation |-> NullObs,
     observation_data |-> "null"]

\* A step record numbered from zero.
ThoughtStepZeroBased(step, thought, action, action_input) ==
    [step |-> step - 1, thought |-> thought, action |-> action,
     action_input |-> action_input, observation |-> NullObs,
     observation_data |-> "null"]

\* ThoughtStep.
ThoughtStep(step, thought, action, action_input) ==
    [step |-> step, thought |-> thought, action |-> action,
     action_input |-> action_input, observation |-> NullObs,
     observation_data |-> "null"]

\* StreamEvent.
StreamEvent(type, data, step) == [type |-> type, data |-> data, step |-> step]

\* Pieces of the running prompt, in the order they were concatenated.
PromptPart(kind, text, obs) == [kind |-> kind, text |-> text, obs |-> obs]

\* REACT_PROMPT.format(...): the initial prompt of a run.
ReactPrompt == <<PromptPart("react_prompt", <<>>, NullObs)>>

\* A re-prompt that starts over from the last output.
ObservationPromptStartsOver(current_prompt, llm_output, observation_text) ==
    <<PromptPart("llm_output", llm_output, NullObs),
      PromptPart("observation", <<>>, observation_text),
      PromptPart("continue", <<>>, NullObs)>>

\* f"{current_prompt}\n\n{llm_output}\n\nObservation: {observation_text}\n\n请继续推理："
ObservationPrompt(current_prompt, llm_output, observation_text) ==
    current_prompt \o
        <<PromptPart("llm_output", llm_output, NullObs),
          PromptPart("observation", <<>>, observation_text),
          PromptPart("continue", <<>>, NullObs)>>

\* A re-prompt that leaves the unparsed output out of the next prompt.
CorrectivePromptDropsOutput(current_prompt, llm_output) ==
    current_prompt \o <<PromptPart("corrective", <<>>, NullObs)>>

\* f"{current_prompt}\n\n{llm_output}\n\n请按照正确格式输出 Action 或 Final Answer："
CorrectivePrompt(current_prompt, llm_output) ==
    current_prompt \o
        <<PromptPart("llm_output", llm_output, NullObs),
          PromptPart("corrective", <<>>, NullObs)>>

\* final_answer: None, or the second component of the parser's result.
NoAnswer == [isNone |-> TRUE, kind |-> "none", text |-> <<>>]

AnswerOf(action_input) ==
    [isNone |-> FALSE, kind |-> action_input.kind, text |-> action_input.text]

\* Python truthiness of final_answer: None, "" and {} are false.
Truthy(final_answer) ==
    /\ ~final_answer.isNone
    /\ final_answer.text # <<>>
    /\ ~(final_answer.kind = "dict" /\ final_answer.text = <<"{", "}">>)

\* AgentResponse.answer: a final answer, or one of the two fixed messages.
FinalText(text) == [kind |-> "final", text |-> text]

\* "无法得出答案，已达到最大迭代次数"
ExhaustedMessage == [kind |-> "exhausted", text |-> <<>>]

\* f"LLM 调用失败: {str(e)}"
LLMFailedMessage == [kind |-> "llm_failed", text |-> <<>>]

\* list(set(tools_used)): each name once, in an order Python does not fix.
RECURSIVE ListOfSet(_)
ListOfSet(S) ==
    IF S = {} THEN <<>>
    ELSE LET x == CHOOSE y \in S : TRUE IN <<x>> \o ListOfSet(S \ {x})

Range(seq) == {seq[i] : i \in 1..Len(seq)}

\* The locals of a call that has not started.
IdleFrame ==
    [pc |-> "idle", mode |-> "run", iterations |-> 0, tools_used |-> <<>>,
     current_prompt |-> <<>>, final_answer |-> NoAnswer, llm_output |-> <<>>,
     pending |-> <<>>, is_final_answer |-> FALSE, final_answer_buffer |-> <<>>,
     thought_step |-> ThoughtStep(0, <<>>, None, NoInput),
     events |-> <<>>,
     \* what the call did, recorded for the properties
     prompts |-> <<>>, outputs |-> <<>>, invoked |-> <<>>, produced |-> <<>>, critic_calls |-> 0,
     failed_at |-> 0, critic_replies |-> <<>>,
     \* run_stream() as a generator: the critic's suggestion kept across the
     \* last yields, and whether the consumer has stopped pulling
     reflection_result |-> None, abandoned |-> FALSE,
     \* the marker of this iteration was completed by a fragment that held
     \* only its end
     marker_split |-> FALSE]

Emit(f, evs) == IF f.mode = "stream" THEN f.events \o evs ELSE f.events

\* The loop condition with an off-by-one comparison.
LoopContinuesOffByOne(f) == f.iterations <= config.max_iterations

\* The loop condition of run() and run_stream().
LoopContinues(f) == f.iterations < config.max_iterations

\* A start of a call that goes on with the list of the previous call.
StartRunKeepsHistory(r, m) ==
    /\ frames[r].pc = "idle"
    /\ state' = "thinking"
    /\ heap' = heap
    /\ thought_history' = thought_history
    /\ frames' = [frames EXCEPT ![r] =
           [IdleFrame EXCEPT !.pc = "loop", !.mode = m,
                             !.current_prompt = ReactPrompt,
                             !.events = IF m = "stream"
                                        THEN <<StreamEvent("start", <<>>, 0)>>
                                        ELSE <<>>]]
    /\ UNCHANGED <<breaker, smart, analysis, plan, registry, config, tools, model_outputs, tool_outcomes, results,
                   response, parsed>>

\* self.state = THINKING; self.thought_history = []; tools_used = []; the
\* prompt is built; run_stream then yields `start`.
BeginRun(r, m) ==
    /\ frames[r].pc = "idle"
    /\ state' = "thinking"
    /\ heap' = Append(heap, <<>>)
    /\ thought_history' = Len(heap) + 1
    /\ frames' = [frames EXCEPT ![r] =
           [IdleFrame EXCEPT !.pc = "loop", !.mode = m,
                             !.current_prompt = ReactPrompt,
                             !.events = IF m = "stream"
                                        THEN <<StreamEvent("start", <<>>, 0)>>
                                        ELSE <<>>]]

\* A call of run() or run_stream() begins.
StartRun(r, m) ==
    /\ BeginRun(r, m)
    /\ UNCHANGED <<breaker, smart, analysis, plan, registry, config, tools, model_outputs, tool_outcomes, results,
                   response, parsed>>

\* A failed model call that is retried instead of ending the run.
ModelCallRetried(r, f) ==
    /\ frames' = [frames EXCEPT ![r] =
           [f EXCEPT !.pc = "loop", !.failed_at = f.iterations]]
    /\ UNCHANGED <<state, results, heap, thought_history>>

\* A failed model call that ends the call without the `error` event.
ModelCallFailedSilently(r, f) ==
    /\ state' = "error"
    /\ frames' = [frames EXCEPT ![r] =
           [f EXCEPT !.pc = "done", !.failed_at = f.iterations]]
    /\ results' = [results EXCEPT ![r] =
           <<[success |-> FALSE, answer |-> LLMFailedMessage,
              thought_process |-> thought_history,
              tools_used |-> f.tools_used, iterations |-> f.iterations,
              final_reflection |-> None]>>]
    /\ UNCHANGED <<heap, thought_history>>

\* A failed model call that returns without touching self.state.
ModelCallFailedLeavesState(r, f) ==
    /\ state' = state
    /\ frames' = [frames EXCEPT ![r] =
           [f EXCEPT !.pc = "done", !.failed_at = f.iterations,
                     !.events = Emit(f, <<StreamEvent("error", <<>>, 0)>>)]]
    /\ results' = [results EXCEPT ![r] =
           <<[success |-> FALSE, answer |-> LLMFailedMessage,
              thought_process |-> thought_history,
              tools_used |-> f.tools_used, iterations |-> f.iterations,
              final_reflection |-> None]>>]
    /\ UNCHANGED <<heap, thought_history>>

\* The early return of a failed model call: state = ERROR and the response
\* with the raw tools_used list and the list self.thought_history refers to.
ModelCallFailed(r, f) ==
    /\ state' = "error"
    /\ frames' = [frames EXCEPT ![r] =
           [f EXCEPT !.pc = "done", !.failed_at = f.iterations,
                     !.events = Emit(f, <<StreamEvent("error", <<>>, 0)>>)]]
    /\ results' = [results EXCEPT ![r] =
           <<[success |-> FALSE, answer |-> LLMFailedMessage,
              thought_process |-> thought_history,
              tools_used |-> f.tools_used, iterations |-> f.iterations,
              final_reflection |-> None]>>]
    /\ UNCHANGED <<heap, thought_history>>

\* The rest of an iteration after the model's output is complete: parse it,
\* record the step, and stop (final answer), go on to the tool (action), or
\* re-prompt (no action).
Decide(r, f0) ==
    LET p == ParseAction(f0.llm_output)
        f == [f0 EXCEPT !.outputs = Append(@, f0.llm_output)]
        is_final == p.action_name = Some(FinalSentinel)
        step == ThoughtStep(f.iterations, ThoughtOf(f.llm_output), p.action_name,
                            IF is_final THEN NoInput ELSE p.action_input)
    IN  /\ results' = results
        /\ thought_history' = thought_history
        /\ IF is_final
           THEN LET done == [step EXCEPT !.observation = FinalReachedObs] IN
                /\ heap' = [heap EXCEPT ![thought_history] = Append(@, done)]
                /\ state' = state
                /\ frames' = [frames EXCEPT ![r] =
                       [f EXCEPT !.pc = "post",
                                 !.final_answer = AnswerOf(p.action_input),
                                 !.produced = Append(@, done),
                                 !.events = Emit(f, <<StreamEvent("answer",
                                     p.action_input.text, f.iterations)>>)]]
           ELSE IF ~p.action_name.isNone
           THEN /\ state' = "acting"
                /\ heap' = heap
                /\ frames' = [frames EXCEPT ![r] =
                       [f EXCEPT !.pc = "act", !.thought_step = step,
                                 !.events = Emit(f, <<StreamEvent("action",
                                     p.action_name.text, f.iterations)>>)]]
           ELSE LET done == [step EXCEPT !.observation = NoActionObs] IN
                /\ heap' = [heap EXCEPT ![thought_history] = Append(@, done)]
                /\ state' = "thinking"
                /\ frames' = [frames EXCEPT ![r] =
                       [f EXCEPT !.pc = "loop",
                                 !.current_prompt =
                                     CorrectivePrompt(@, f.llm_output),
                                 !.produced = Append(@, done)]]

\* run(): one pass of the loop head and self.llm.invoke(current_prompt),
\* which raises or returns the whole output; then the parse.
LLMInvoke(r) ==
    LET f == frames[r]
        g == [f EXCEPT !.iterations = @ + 1,
                       !.prompts = Append(@, f.current_prompt)]
    IN  /\ f.pc = "loop" /\ f.mode = "run"
        /\ LoopContinues(f)
        /\ \/ ModelCallFailed(r, g)
           \/ \E o \in model_outputs : Decide(r, [g EXCEPT !.llm_output = o])
        /\ UNCHANGED <<breaker, smart, analysis, plan, registry, config, tools, model_outputs, tool_outcomes, response,
                       parsed>>

\* run_stream(): the loop head, the `iteration` and `thinking_start` events,
\* and the start of self.llm_streaming.stream(current_prompt). pending is
\* the text the model is still to deliver.
StreamOpen(r) ==
    LET f == frames[r] IN
    /\ f.pc = "loop" /\ f.mode = "stream"
    /\ LoopContinues(f)
    /\ \E o \in model_outputs :
          frames' = [frames EXCEPT ![r] =
              [f EXCEPT !.pc = "streaming",
                        !.iterations = @ + 1,
                        !.prompts = Append(@, f.current_prompt),
                        !.llm_output = <<>>,
                        !.pending = o,
                        !.is_final_answer = FALSE,
                        !.final_answer_buffer = <<>>,
                        !.marker_split = FALSE,
                        !.events = @ \o
                            <<StreamEvent("iteration",
                                          <<f.iterations + 1, config.max_iterations>>,
                                          f.iterations + 1),
                              StreamEvent("thinking_start", <<>>, f.iterations + 1)>>]]
    /\ UNCHANGED <<breaker, smart, analysis, plan, registry, config, tools, model_outputs, tool_outcomes, state,
                   thought_history, heap, results, response, parsed>>

\* The marker scan done on the fragment alone, not on the accumulated output.
StreamChunkTokenScan(r) ==
    LET f == frames[r] IN
    /\ f.pc = "streaming"
    /\ \E n \in 1..Len(f.pending) :
          LET token == SubSeq(f.pending, 1, n)
              llm_output == f.llm_output \o token
              g == [f EXCEPT !.llm_output = llm_output,
                             !.pending = Suffix(f.pending, n + 1)]
          IN  frames' = [frames EXCEPT ![r] =
                  IF ~f.is_final_answer /\ Contains(token, FinalMarker)
                  THEN LET final_start == Find(llm_output, FinalMarker)
                           buffer == LStrip(Suffix(llm_output,
                                         final_start + Len(FinalMarker)))
                       IN  [g EXCEPT !.is_final_answer = TRUE,
                                     !.final_answer_buffer = buffer,
                                     !.marker_split =
                                         final_start <= Len(f.llm_output),
                                     !.events = @ \o
                                         <<StreamEvent("answer_start", <<>>,
                                                       f.iterations)>> \o
                                         (IF buffer # <<>>
                                          THEN <<StreamEvent("answer_token", buffer,
                                                             f.iterations)>>
                                          ELSE <<>>)]
                  ELSE IF f.is_final_answer
                  THEN [g EXCEPT !.final_answer_buffer = @ \o token,
                                 !.events = Append(@,
                                     StreamEvent("answer_token", token,
                                                 f.iterations))]
                  ELSE g]
    /\ UNCHANGED <<breaker, smart, analysis, plan, registry, config, tools, model_outputs, tool_outcomes, state,
                   thought_history, heap, results, response, parsed>>

\* A marker scan that does not hand on what is buffered after the marker.
StreamChunkDropsTail(r) ==
    LET f == frames[r] IN
    /\ f.pc = "streaming"
    /\ \E n \in 1..Len(f.pending) :
          LET token == SubSeq(f.pending, 1, n)
              llm_output == f.llm_output \o token
              g == [f EXCEPT !.llm_output = llm_output,
                             !.pending = Suffix(f.pending, n + 1)]
          IN  frames' = [frames EXCEPT ![r] =
                  IF ~f.is_final_answer /\ Contains(llm_output, FinalMarker)
                  THEN LET final_start == Find(llm_output, FinalMarker)
                           buffer == LStrip(Suffix(llm_output,
                                         final_start + Len(FinalMarker)))
                       IN  [g EXCEPT !.is_final_answer = TRUE,
                                     !.final_answer_buffer = buffer,
                                     !.marker_split =
                                         final_start <= Len(f.llm_output),
                                     !.events = @ \o
                                         <<StreamEvent("answer_start", <<>>,
                                                       f.iterations)>> \o
                                         <<>>]
                  ELSE IF f.is_final_answer
                  THEN [g EXCEPT !.final_answer_buffer = @ \o token,
                                 !.events = Append(@,
                                     StreamEvent("answer_token", token,
                                                 f.iterations))]
                  ELSE g]
    /\ UNCHANGED <<breaker, smart, analysis, plan, registry, config, tools, model_outputs, tool_outcomes, state,
                   thought_history, heap, results, response, parsed>>

\* One fragment arrives: the marker scan of the streaming loop.
StreamChunk(r) ==
    LET f == frames[r] IN
    /\ f.pc = "streaming"
    /\ \E n \in 1..Len(f.pending) :
          LET token == SubSeq(f.pending, 1, n)
              llm_output == f.llm_output \o token
              g == [f EXCEPT !.llm_output = llm_output,
                             !.pending = Suffix(f.pending, n + 1)]
          IN  frames' = [frames EXCEPT ![r] =
                  IF ~f.is_final_answer /\ Contains(llm_output, FinalMarker)
                  THEN LET final_start == Find(llm_output, FinalMarker)
                           buffer == LStrip(Suffix(llm_output,
                                         final_start + Len(FinalMarker)))
                       IN  [g EXCEPT !.is_final_answer = TRUE,
                                     !.final_answer_buffer = buffer,
                                     !.marker_split =
                                         final_start <= Len(f.llm_output),
                                     !.events = @ \o
                                         <<StreamEvent("answer_start", <<>>,
                                                       f.iterations)>> \o
                                         (IF buffer # <<>>
                                          THEN <<StreamEvent("answer_token", buffer,
                                                             f.iterations)>>
                                          ELSE <<>>)]
                  ELSE IF f.is_final_answer
                  THEN [g EXCEPT !.final_answer_buffer = @ \o token,
                                 !.events = Append(@,
                                     StreamEvent("answer_token", token,
                                                 f.iterations))]
                  ELSE g]
    /\ UNCHANGED <<breaker, smart, analysis, plan, registry, config, tools, model_outputs, tool_outcomes, state,
                   thought_history, heap, results, response, parsed>>

\* The stream raises, before or after some fragments: the except branch.
StreamFail(r) ==
    LET f == frames[r] IN
    /\ f.pc = "streaming"
    /\ ModelCallFailed(r, f)
    /\ UNCHANGED <<breaker, smart, analysis, plan, registry, config, tools, model_outputs, tool_outcomes, response,
                   parsed>>

\* The end of the model's stream without the `thinking_end` event.
StreamCloseNoThinkingEnd(r) ==
    LET f == frames[r] IN
    /\ f.pc = "streaming" /\ f.pending = <<>>
    /\ Decide(r, f)
    /\ UNCHANGED <<breaker, smart, analysis, plan, registry, config, tools, model_outputs, tool_outcomes, response,
                   parsed>>

\* The stream ends: `thinking_end` with the whole output, then the parse.
StreamClose(r) ==
    LET f == frames[r] IN
    /\ f.pc = "streaming" /\ f.pending = <<>>
    /\ Decide(r, [f EXCEPT !.events = Append(@,
                      StreamEvent("thinking_end", f.llm_output, f.iterations))])
    /\ UNCHANGED <<breaker, smart, analysis, plan, registry, config, tools, model_outputs, tool_outcomes, response,
                   parsed>>

\* The tool branch of an iteration: _execute_action, the observation on the
\* step, tools_used.append, the slice of the observation text (for the
\* verbose print of run(), for the `observation` event of run_stream()),
\* the new prompt and the append to self.thought_history.
ExecuteTool(r) ==
    LET f == frames[r]
        action_name == f.thought_step.action.text
    IN
    /\ f.pc = "act"
    /\ \E outcome \in (IF action_name \in tools THEN tool_outcomes
                       ELSE {CHOOSE o \in ToolOutcomes : TRUE}) :
          LET res == ExecuteAction(action_name, outcome)
              step == [f.thought_step EXCEPT
                          !.observation = res.observation_text,
                          !.observation_data = res.structured_data]
              raises == /\ SliceRaises(res.observation_text)
                        /\ (f.mode = "stream" \/ config.verbose)
              g == IF raises THEN [f EXCEPT !.pc = "raised"]
                   ELSE [f EXCEPT
                            !.pc = "loop",
                            !.current_prompt =
                                ObservationPrompt(@, f.llm_output,
                                                  res.observation_text),
                            !.produced = Append(@, step),
                            !.events = Emit(f, <<StreamEvent("observation",
                                res.observation_text, f.iterations)>>)]
          IN  /\ frames' = [frames EXCEPT ![r] =
                     [g EXCEPT !.thought_step = step,
                               !.tools_used = Append(@, action_name),
                               !.invoked = IF res.called
                                           THEN Append(@, [name |-> action_name,
                                                           kind |-> outcome.kind,
                                                           output |-> outcome.output,
                                                           error |-> outcome.error.text,
                                                           input |-> ActionInput(f.thought_step.action_input.text),
                                                           step |-> f.iterations])
                                           ELSE @]]
              /\ IF raises THEN UNCHANGED <<state, heap>>
                 ELSE /\ heap' = [heap EXCEPT ![thought_history] = Append(@, step)]
                      /\ state' = "thinking"
    /\ UNCHANGED <<breaker, smart, analysis, plan, registry, config, tools, model_outputs, tool_outcomes, thought_history,
                   results, response, parsed>>

\* A return that treats a used-up budget as an error state.
ReturnExhaustionAsError(r, f, reflection_result) ==
    LET used == ListOfSet(Range(f.tools_used)) IN
    /\ state' = IF f.final_answer.isNone THEN "error" ELSE "completed"
    /\ frames' = [frames EXCEPT ![r] =
           [f EXCEPT !.pc = "done",
                     !.events = Emit(f,
                         <<StreamEvent("meta",
                                       [tools_used |-> used,
                                        iterations |-> f.iterations], 0),
                           StreamEvent("done", <<>>, 0)>>)]]
    /\ results' = [results EXCEPT ![r] =
           <<[success |-> ~f.final_answer.isNone,
              answer |-> IF Truthy(f.final_answer)
                         THEN FinalText(f.final_answer.text)
                         ELSE ExhaustedMessage,
              thought_process |-> thought_history,
              tools_used |-> used, iterations |-> f.iterations,
              final_reflection |-> reflection_result]>>]

\* A return that turns a rejected answer into a failed response.
ReturnRejectedAsFailure(r, f, reflection_result) ==
    LET used == ListOfSet(Range(f.tools_used)) IN
    /\ state' = "completed"
    /\ frames' = [frames EXCEPT ![r] =
           [f EXCEPT !.pc = "done",
                     !.events = Emit(f,
                         <<StreamEvent("meta",
                                       [tools_used |-> used,
                                        iterations |-> f.iterations], 0),
                           StreamEvent("done", <<>>, 0)>>)]]
    /\ results' = [results EXCEPT ![r] =
           <<[success |-> ~f.final_answer.isNone /\ reflection_result.isNone,
              answer |-> IF Truthy(f.final_answer) /\ reflection_result.isNone
                         THEN FinalText(f.final_answer.text)
                         ELSE ExhaustedMessage,
              thought_process |-> thought_history,
              tools_used |-> used, iterations |-> f.iterations,
              final_reflection |-> reflection_result]>>]

\* state = COMPLETED, the `meta` and `done` events, and the response.
Return(r, f, reflection_result) ==
    LET used == ListOfSet(Range(f.tools_used)) IN
    /\ state' = "completed"
    /\ frames' = [frames EXCEPT ![r] =
           [f EXCEPT !.pc = "done",
                     !.events = Emit(f,
                         <<StreamEvent("meta",
                                       [tools_used |-> used,
                                        iterations |-> f.iterations], 0),
                           StreamEvent("done", <<>>, 0)>>)]]
    /\ results' = [results EXCEPT ![r] =
           <<[success |-> ~f.final_answer.isNone,
              answer |-> IF Truthy(f.final_answer)
                         THEN FinalText(f.final_answer.text)
                         ELSE ExhaustedMessage,
              thought_process |-> thought_history,
              tools_used |-> used, iterations |-> f.iterations,
              final_reflection |-> reflection_result]>>]

\* After the loop (break on a final answer, or the budget is used up):
\* enter the reflection pass, or return at once.
AfterLoop(r) ==
    LET f == frames[r] IN
    /\ \/ f.pc = "post"
       \/ f.pc = "loop" /\ ~LoopContinues(f)
    /\ IF Truthy(f.final_answer) /\ config.enable_reflection
       THEN /\ state' = "reflecting"
            /\ frames' = [frames EXCEPT ![r] =
                   [f EXCEPT !.pc = "reflect",
                             !.events = Emit(f,
                                 <<StreamEvent("reflecting", <<>>, 0)>>)]]
            /\ UNCHANGED results
       ELSE Return(r, f, None)
    /\ UNCHANGED <<breaker, smart, analysis, plan, registry, config, tools, model_outputs, tool_outcomes, thought_history,
                   heap, response, parsed>>

\* _reflect's model call and what the caller makes of it; then the return.
ReflectCall(r) ==
    LET f == frames[r] IN
    /\ f.pc = "reflect"
    /\ \E critic \in CriticOutcomes :
          LET verdict == Reflect(critic)
              rejected == /\ ~verdict.approved
                          /\ ~verdict.suggestion.isNone
                          /\ verdict.suggestion.text # <<>>
              g == [f EXCEPT !.critic_calls = @ + 1,
                             !.critic_replies = Append(@, critic),
                             !.events = IF rejected
                                        THEN Emit(f, <<StreamEvent("reflection_result",
                                                 verdict.suggestion.text, 0)>>)
                                        ELSE @]
          IN  Return(r, g, IF rejected THEN verdict.suggestion ELSE None)
    /\ UNCHANGED <<breaker, smart, analysis, plan, registry, config, tools, model_outputs, tool_outcomes, thought_history,
                   heap, response, parsed>>


(***************************************************************************)
(* run_stream() as the generator it is: one action per resumption          *)
(***************************************************************************)

\* The yields of run_stream(): pc = "at_<type>" is the generator suspended
\* at the yield of an event of that type.
YieldPoints ==
    {"at_start", "at_iteration", "at_thinking_start", "at_answer_start",
     "at_answer_token", "at_thinking_end", "at_error", "at_answer",
     "at_action", "at_observation", "at_reflecting", "at_reflection_result",
     "at_meta", "at_done"}

\* The yields inside the try block of the model call (lines 841-886).
YieldPointsInTry ==
    {"at_thinking_start", "at_answer_start", "at_answer_token",
     "at_thinking_end"}

\* self.state, the list objects and the locals f, as a resumption finds or
\* leaves them.
World(f) == [f |-> f, state |-> state, heap |-> heap]

Land(r, w) ==
    /\ frames' = [frames EXCEPT ![r] = w.f]
    /\ state' = w.state
    /\ heap' = w.heap

\* yield event: the generator is suspended at pc.
Yield(w, pc, event) ==
    [w EXCEPT !.f.pc = pc, !.f.events = Append(@, event)]

\* self.state = COMPLETED, then yield `meta`.
ToMeta(w) ==
    Yield([w EXCEPT !.state = "completed"], "at_meta",
          StreamEvent("meta",
                      [tools_used |-> ListOfSet(Range(w.f.tools_used)),
                       iterations |-> w.f.iterations], 0))

\* After the loop: self.state = REFLECTING and yield `reflecting`, or
\* straight on to `meta`.
ToAfterLoop(w) ==
    IF Truthy(w.f.final_answer) /\ config.enable_reflection
    THEN Yield([w EXCEPT !.state = "reflecting"], "at_reflecting",
               StreamEvent("reflecting", <<>>, 0))
    ELSE ToMeta(w)

\* The loop condition: iterations += 1 and yield `iteration`, or leave the
\* loop.
ToLoopHead(w) ==
    IF LoopContinues(w.f)
    THEN Yield([w EXCEPT !.f.iterations = @ + 1], "at_iteration",
               StreamEvent("iteration",
                           <<w.f.iterations + 1, config.max_iterations>>,
                           w.f.iterations + 1))
    ELSE ToAfterLoop(w)

\* The except branch of the model call: self.state = ERROR, yield `error`.
ToError(w) ==
    Yield([w EXCEPT !.state = "error", !.f.failed_at = w.f.iterations],
          "at_error", StreamEvent("error", <<>>, 0))


\* A generator that something goes on driving after its consumer has
\* stopped.
ResumableAfterStop(r, pcs) == frames[r].pc \in pcs

\* The generator may be resumed: it is suspended (or not yet started) and
\* the consumer has not given it up.
Resumable(r, pcs) == frames[r].pc \in pcs /\ ~frames[r].abandoned

\* The first next(): the code up to yield `start`.
NextStart(r) ==
    /\ Resumable(r, {"idle"})
    /\ state' = "thinking"
    /\ heap' = Append(heap, <<>>)
    /\ thought_history' = Len(heap) + 1
    /\ frames' = [frames EXCEPT ![r] =
           [IdleFrame EXCEPT !.pc = "at_start", !.mode = "stream",
                             !.current_prompt = ReactPrompt,
                             !.events = <<StreamEvent("start", <<>>, 0)>>]]
    /\ UNCHANGED <<breaker, smart, analysis, plan, registry, config, tools, model_outputs, tool_outcomes, results,
                   response, parsed>>

\* Resumed after `start`: the first test of the loop condition.
ResumeFromStart(r) ==
    /\ Resumable(r, {"at_start"})
    /\ Land(r, ToLoopHead(World(frames[r])))
    /\ UNCHANGED <<breaker, smart, analysis, plan, registry, config, tools, model_outputs, tool_outcomes,
                   thought_history, results, response, parsed>>

\* Resumed after `iteration`: llm_output = "" and yield `thinking_start`.
ResumeFromIteration(r) ==
    LET f == frames[r] IN
    /\ Resumable(r, {"at_iteration"})
    /\ Land(r, Yield(World([f EXCEPT !.llm_output = <<>>]), "at_thinking_start",
                     StreamEvent("thinking_start", <<>>, f.iterations)))
    /\ UNCHANGED <<breaker, smart, analysis, plan, registry, config, tools, model_outputs, tool_outcomes,
                   thought_history, results, response, parsed>>

\* Resumed after `thinking_start`: self.llm_streaming.stream(current_prompt)
\* is called and its fragments are read, silently, up to the one with which
\* llm_output holds the marker (yield `answer_start`), to the end of the
\* stream (yield `thinking_end`), or to its failure.
ResumeFromThinkingStart(r) ==
    LET f == [frames[r] EXCEPT !.prompts = Append(@, frames[r].current_prompt),
                               !.is_final_answer = FALSE,
                               !.final_answer_buffer = <<>>]
    IN
    /\ Resumable(r, {"at_thinking_start"})
    /\ \/ Land(r, ToError(World(f)))
       \/ \E o \in model_outputs :
             \/ /\ ~Contains(o, FinalMarker)
                /\ Land(r, Yield(World([f EXCEPT !.llm_output = o,
                                                 !.pending = <<>>]),
                                 "at_thinking_end",
                                 StreamEvent("thinking_end", o, f.iterations)))
             \/ \E n \in 1..Len(o) :
                   LET llm_output == SubSeq(o, 1, n)
                       final_start == Find(llm_output, FinalMarker)
                   IN  /\ Contains(llm_output, FinalMarker)
                       /\ Land(r, Yield(World(
                              [f EXCEPT !.llm_output = llm_output,
                                        !.pending = Suffix(o, n + 1),
                                        !.is_final_answer = TRUE,
                                        !.final_answer_buffer =
                                            LStrip(Suffix(llm_output,
                                                final_start + Len(FinalMarker)))]),
                              "at_answer_start",
                              StreamEvent("answer_start", <<>>, f.iterations)))
    /\ UNCHANGED <<breaker, smart, analysis, plan, registry, config, tools, model_outputs, tool_outcomes,
                   thought_history, results, response, parsed>>

\* The streaming loop once the marker has been seen: the next fragment is
\* yielded as `answer_token`, the stream ends (yield `thinking_end`), or it
\* fails.
NextFragment(r, f) ==
    \/ Land(r, ToError(World(f)))
    \/ /\ f.pending = <<>>
       /\ Land(r, Yield(World(f), "at_thinking_end",
                        StreamEvent("thinking_end", f.llm_output, f.iterations)))
    \/ \E n \in 1..Len(f.pending) :
          LET token == SubSeq(f.pending, 1, n) IN
          Land(r, Yield(World([f EXCEPT !.llm_output = @ \o token,
                                        !.pending = Suffix(f.pending, n + 1),
                                        !.final_answer_buffer = @ \o token]),
                        "at_answer_token",
                        StreamEvent("answer_token", token, f.iterations)))

\* Resumed after `answer_start`: the text that followed the marker in the
\* same fragment is yielded as `answer_token`; without such text the loop
\* goes on to the next fragment.
ResumeFromAnswerStart(r) ==
    LET f == frames[r] IN
    /\ Resumable(r, {"at_answer_start"})
    /\ IF f.final_answer_buffer # <<>>
       THEN Land(r, Yield(World(f), "at_answer_token",
                          StreamEvent("answer_token", f.final_answer_buffer,
                                      f.iterations)))
       ELSE NextFragment(r, f)
    /\ UNCHANGED <<breaker, smart, analysis, plan, registry, config, tools, model_outputs, tool_outcomes,
                   thought_history, results, response, parsed>>

\* Resumed after `answer_token`.
ResumeFromAnswerToken(r) ==
    /\ Resumable(r, {"at_answer_token"})
    /\ NextFragment(r, frames[r])
    /\ UNCHANGED <<breaker, smart, analysis, plan, registry, config, tools, model_outputs, tool_outcomes,
                   thought_history, results, response, parsed>>

\* Resumed after `thinking_end`: the parse and the step; then the append and
\* yield `answer`, or self.state = ACTING and yield `action`, or the
\* corrective prompt, the append and the next test of the loop condition.
ResumeFromThinkingEnd(r) ==
    LET f == [frames[r] EXCEPT !.outputs = Append(@, frames[r].llm_output)]
        p == ParseAction(f.llm_output)
        is_final == p.action_name = Some(FinalSentinel)
        step == ThoughtStep(f.iterations, ThoughtOf(f.llm_output), p.action_name,
                            IF is_final THEN NoInput ELSE p.action_input)
        w == World(f)
    IN
    /\ Resumable(r, {"at_thinking_end"})
    /\ IF is_final
       THEN LET done == [step EXCEPT !.observation = FinalReachedObs] IN
            Land(r, Yield([w EXCEPT
                              !.heap[thought_history] = Append(@, done),
                              !.f.final_answer = AnswerOf(p.action_input),
                              !.f.produced = Append(@, done)],
                          "at_answer",
                          StreamEvent("answer", p.action_input.text,
                                      f.iterations)))
       ELSE IF ~p.action_name.isNone
       THEN Land(r, Yield([w EXCEPT !.state = "acting",
                                    !.f.thought_step = step],
                          "at_action",
                          StreamEvent("action", p.action_name.text,
                                      f.iterations)))
       ELSE LET done == [step EXCEPT !.observation = NoActionObs] IN
            Land(r, ToLoopHead([w EXCEPT
                       !.heap[thought_history] = Append(@, done),
                       !.state = "thinking",
                       !.f.current_prompt = CorrectivePrompt(@, f.llm_output),
                       !.f.produced = Append(@, done)]))
    /\ UNCHANGED <<breaker, smart, analysis, plan, registry, config, tools, model_outputs, tool_outcomes,
                   thought_history, results, response, parsed>>

\* Resumed after `answer`: break.
ResumeFromAnswer(r) ==
    /\ Resumable(r, {"at_answer"})
    /\ Land(r, ToAfterLoop(World(frames[r])))
    /\ UNCHANGED <<breaker, smart, analysis, plan, registry, config, tools, model_outputs, tool_outcomes,
                   thought_history, results, response, parsed>>

\* Resumed after `action`: _execute_action, the observation on the step,
\* tools_used.append, and yield `observation`, whose data slices the
\* observation text.
ResumeFromAction(r) ==
    LET f == frames[r]
        action_name == f.thought_step.action.text
    IN
    /\ Resumable(r, {"at_action"})
    /\ \E outcome \in (IF action_name \in tools THEN tool_outcomes
                       ELSE {CHOOSE o \in ToolOutcomes : TRUE}) :
          LET res == ExecuteAction(action_name, outcome)
              step == [f.thought_step EXCEPT
                          !.observation = res.observation_text,
                          !.observation_data = res.structured_data]
              g == [f EXCEPT !.thought_step = step,
                             !.tools_used = Append(@, action_name),
                             !.invoked = IF res.called
                                         THEN Append(@, [name |-> action_name,
                                                         kind |-> outcome.kind,
                                                         output |-> outcome.output,
                                                         error |-> outcome.error.text,
                                                         input |-> ActionInput(f.thought_step.action_input.text),
                                                         step |-> f.iterations])
                                         ELSE @]
          IN  IF SliceRaises(res.observation_text)
              THEN Land(r, World([g EXCEPT !.pc = "raised"]))
              ELSE Land(r, Yield(World(g), "at_observation",
                                 StreamEvent("observation", res.observation_text,
                                             f.iterations)))
    /\ UNCHANGED <<breaker, smart, analysis, plan, registry, config, tools, model_outputs, tool_outcomes,
                   thought_history, results, response, parsed>>

\* Resumed after `observation`: the new prompt, the append to
\* self.thought_history, self.state = THINKING, and the loop condition.
ResumeFromObservation(r) ==
    LET f == frames[r]
        step == f.thought_step
    IN
    /\ Resumable(r, {"at_observation"})
    /\ Land(r, ToLoopHead([World(f) EXCEPT
                  !.heap[thought_history] = Append(@, step),
                  !.state = "thinking",
                  !.f.current_prompt =
                      ObservationPrompt(@, f.llm_output, step.observation),
                  !.f.produced = Append(@, step)]))
    /\ UNCHANGED <<breaker, smart, analysis, plan, registry, config, tools, model_outputs, tool_outcomes,
                   thought_history, results, response, parsed>>

\* Resumed after `reflecting`: _reflect's model call; a rejection is kept
\* and yielded as `reflection_result`.
ResumeFromReflecting(r) ==
    LET f == frames[r] IN
    /\ Resumable(r, {"at_reflecting"})
    /\ \E critic \in CriticOutcomes :
          LET verdict == Reflect(critic)
              rejected == /\ ~verdict.approved
                          /\ ~verdict.suggestion.isNone
                          /\ verdict.suggestion.text # <<>>
              g == [f EXCEPT !.critic_calls = @ + 1,
                             !.critic_replies = Append(@, critic)]
          IN  IF rejected
              THEN Land(r, Yield(World([g EXCEPT !.reflection_result =
                                                     verdict.suggestion]),
                                 "at_reflection_result",
                                 StreamEvent("reflection_result",
                                             verdict.suggestion.text, 0)))
              ELSE Land(r, ToMeta(World(g)))
    /\ UNCHANGED <<breaker, smart, analysis, plan, registry, config, tools, model_outputs, tool_outcomes,
                   thought_history, results, response, parsed>>

\* Resumed after `reflection_result`.
ResumeFromReflectionResult(r) ==
    /\ Resumable(r, {"at_reflection_result"})
    /\ Land(r, ToMeta(World(frames[r])))
    /\ UNCHANGED <<breaker, smart, analysis, plan, registry, config, tools, model_outputs, tool_outcomes,
                   thought_history, results, response, parsed>>

\* Resumed after `meta`: yield `done`.
ResumeFromMeta(r) ==
    /\ Resumable(r, {"at_meta"})
    /\ Land(r, Yield(World(frames[r]), "at_done", StreamEvent("done", <<>>, 0)))
    /\ UNCHANGED <<breaker, smart, analysis, plan, registry, config, tools, model_outputs, tool_outcomes,
                   thought_history, results, response, parsed>>

\* Resumed after `done`: return AgentResponse(...), the generator is over.
ResumeFromDone(r) ==
    LET f == frames[r] IN
    /\ Resumable(r, {"at_done"})
    /\ frames' = [frames EXCEPT ![r] = [f EXCEPT !.pc = "done"]]
    /\ results' = [results EXCEPT ![r] =
           <<[success |-> ~f.final_answer.isNone,
              answer |-> IF Truthy(f.final_answer)
                         THEN FinalText(f.final_answer.text)
                         ELSE ExhaustedMessage,
              thought_process |-> thought_history,
              tools_used |-> ListOfSet(Range(f.tools_used)),
              iterations |-> f.iterations,
              final_reflection |-> f.reflection_result]>>]
    /\ UNCHANGED <<breaker, smart, analysis, plan, registry, config, tools, model_outputs, tool_outcomes, state,
                   thought_history, heap, response, parsed>>

\* Resumed after `error`: the failure response is returned.
ResumeFromError(r) ==
    LET f == frames[r] IN
    /\ Resumable(r, {"at_error"})
    /\ frames' = [frames EXCEPT ![r] = [f EXCEPT !.pc = "done"]]
    /\ results' = [results EXCEPT ![r] =
           <<[success |-> FALSE, answer |-> LLMFailedMessage,
              thought_process |-> thought_history,
              tools_used |-> f.tools_used, iterations |-> f.iterations,
              final_reflection |-> None]>>]
    /\ UNCHANGED <<breaker, smart, analysis, plan, registry, config, tools, model_outputs, tool_outcomes, state,
                   thought_history, heap, response, parsed>>

\* The consumer's last pull with a handler that takes the generator's close
\* for a failure of the model call.
AbandonCaughtByHandler(r) ==
    LET f == [frames[r] EXCEPT !.abandoned = TRUE] IN
    /\ Resumable(r, YieldPoints)
    /\ IF f.pc \in YieldPointsInTry
       THEN Land(r, ToError(World(f)))
       ELSE Land(r, World(f))
    /\ UNCHANGED <<breaker, smart, analysis, plan, registry, config, tools, model_outputs, tool_outcomes,
                   thought_history, results, response, parsed>>

\* The consumer stops pulling: the generator stays suspended at its yield
\* and, when it is closed or collected, GeneratorExit is raised there. The
\* only handler around a yield is `except Exception` (line 888), which does
\* not take GeneratorExit, and there is no finally clause: no code of
\* run_stream() runs any more.
Abandon(r) ==
    LET f == [frames[r] EXCEPT !.abandoned = TRUE] IN
    /\ Resumable(r, YieldPoints)
    /\ Land(r, World(f))
    /\ UNCHANGED <<breaker, smart, analysis, plan, registry, config, tools, model_outputs, tool_outcomes,
                   thought_history, results, response, parsed>>

\* One run_stream() generator and its consumer.
Pull(r) ==
    \/ NextStart(r)
    \/ ResumeFromStart(r)
    \/ ResumeFromIteration(r)
    \/ ResumeFromThinkingStart(r)
    \/ ResumeFromAnswerStart(r)
    \/ ResumeFromAnswerToken(r)
    \/ ResumeFromThinkingEnd(r)
    \/ ResumeFromAnswer(r)
    \/ ResumeFromAction(r)
    \/ ResumeFromObservation(r)
    \/ ResumeFromReflecting(r)
    \/ ResumeFromReflectionResult(r)
    \/ ResumeFromMeta(r)
    \/ ResumeFromDone(r)
    \/ ResumeFromError(r)
    \/ Abandon(r)

(***************************************************************************)
(* Specifications                                                          *)
(***************************************************************************)

(***************************************************************************)
(* The tool tables: BaseAgent.tools and ToolRegistry                       *)
(***************************************************************************)

\* A tool object, as far as the tables look at it: its name and category.
Tool(name, category) == [name |-> name, category |-> category]

ToolCategories == {"retrieval", "utility"}

\* d[key] = value on a dict kept as a function.
Store(d, key, value) ==
    [k \in DOMAIN d \cup {key} |-> IF k = key THEN value ELSE d[k]]

NoCall == [op |-> "none", tool |-> Tool(<<>>, "utility"), duplicate |-> FALSE,
           raised |-> FALSE]

\* The tables of an orchestrator whose tools have the given names, next to
\* an empty ToolRegistry. first_* and last record, for the properties, the
\* tool first registered under each name and the last registration call.
RegistryOf(names) ==
    [agent_tools |-> [n \in names |-> Tool(n, "utility")],
     registry_tools |-> [n \in {} |-> Tool(n, "utility")],
     categories |-> [c \in ToolCategories |-> <<>>],
     first_agent |-> [n \in names |-> Tool(n, "utility")],
     first_registry |-> [n \in {} |-> Tool(n, "utility")],
     last |-> NoCall]

\* BaseAgent.register_tool: self.tools[tool.name] = tool.
RegisterTool(tool) ==
    LET duplicate == tool.name \in DOMAIN registry.agent_tools IN
    /\ registry' =
          [registry EXCEPT
              !.agent_tools = Store(@, tool.name, tool),
              !.first_agent = IF duplicate THEN @ ELSE Store(@, tool.name, tool),
              !.last = [op |-> "register_tool", tool |-> tool,
                        duplicate |-> duplicate, raised |-> FALSE]]
    /\ tools' = tools \cup {tool.name}
    /\ UNCHANGED <<breaker, smart, analysis, plan, config, model_outputs, tool_outcomes, state, thought_history,
                   heap, frames, results, response, parsed>>

\* ToolRegistry.register: ValueError when the name is taken; else the tool
\* is stored and its name appended to the list of its category.
Register(tool) ==
    LET duplicate == tool.name \in DOMAIN registry.registry_tools IN
    /\ registry' =
          IF duplicate
          THEN [registry EXCEPT
                   !.last = [op |-> "register", tool |-> tool,
                             duplicate |-> TRUE, raised |-> TRUE]]
          ELSE [registry EXCEPT
                   !.registry_tools = Store(@, tool.name, tool),
                   !.categories[tool.category] = Append(@, tool.name),
                   !.first_registry = Store(@, tool.name, tool),
                   !.last = [op |-> "register", tool |-> tool,
                             duplicate |-> FALSE, raised |-> FALSE]]
    /\ UNCHANGED <<breaker, smart, analysis, plan, config, tools, model_outputs, tool_outcomes, state,
                   thought_history, heap, frames, results, response, parsed>>

(***************************************************************************)
(* BaseAgent._create_plan                                                  *)
(***************************************************************************)

StepMarker == <<"S", "t", "e", "p", " ">>

\* `Step \d+:` at position i: the position after the colon, 0 when the
\* text does not match there.
StepHeadEnd(s, i) ==
    LET d == i + Len(StepMarker)
        e == DigitsEnd(s, d)
    IN  IF IsAt(s, StepMarker, i) /\ e > d /\ e <= Len(s) /\ s[e] = ":"
        THEN e + 1 ELSE 0

\* The lookahead (?=Step \d+:|$) at position e; $ also matches before a
\* newline that ends the text.
StepLookahead(s, e) ==
    \/ e = Len(s) + 1
    \/ e = Len(s) /\ s[e] = "\n"
    \/ StepHeadEnd(s, e) # 0

\* The end of the run of whitespace that starts at i.
RECURSIVE SpaceEnd(_, _)
SpaceEnd(s, i) ==
    IF i <= Len(s) /\ s[i] \in Whitespace THEN SpaceEnd(s, i + 1) ELSE i

\* The match of `Step \d+:\s*(.+?)(?=Step \d+:|$)` (DOTALL) at position i.
\* \s* takes all the whitespace and gives one character back when nothing
\* else is left for the group; the group is the shortest text after which
\* the lookahead holds.
StepMatch(s, i) ==
    LET j == StepHeadEnd(s, i)
        k == SpaceEnd(s, j)
        g == IF k <= Len(s) THEN k ELSE k - 1
        ends == {e \in (g + 1)..(Len(s) + 1) : StepLookahead(s, e)}
        end == CHOOSE e \in ends : \A x \in ends : e <= x
    IN  IF j = 0 \/ g < j
        THEN [matched |-> FALSE, group |-> <<>>, end |-> 0]
        ELSE [matched |-> TRUE, group |-> SubSeq(s, g, end - 1), end |-> end]

\* re.findall from position p on: the groups of the successive matches.
RECURSIVE FindSteps(_, _)
FindSteps(s, p) ==
    LET starts == {i \in p..Len(s) : StepMatch(s, i).matched} IN
    IF starts = {} THEN <<>>
    ELSE LET i == CHOOSE x \in starts : \A y \in starts : x <= y
             m == StepMatch(s, i)
         IN  <<m.group>> \o FindSteps(s, m.end)

\* [s.strip() for s in steps if s.strip()]
PlanSteps(result) ==
    LET steps == FindSteps(result, 1)
        stripped == [x \in 1..Len(steps) |-> Strip(steps[x])]
    IN  SelectSeq(stripped, LAMBDA t : t # <<>>)

\* What the model may do with the planning prompt.
PlannerOutcomes ==
    {[kind |-> "raise", text |-> <<>>],
     [kind |-> "reply", text |-> <<"S", "t", "e", "p", " ", "1", ":", " ", "a", "\n", "S", "t", "e", "p", " ", "2", ":", " ", "b">>],
     [kind |-> "reply", text |-> <<"S", "t", "e", "p", " ", "1", ":", " ", "\n">>],
     [kind |-> "reply", text |-> <<"S", "t", "e", "p", " ", "1", ":", "S", "t", "e", "p", " ", "2", ":", "b", "\n">>],
     [kind |-> "reply", text |-> <<"a", " ", "b">>]}

\* No call of _create_plan yet.
NoPlan ==
    [called |-> FALSE, model_calls |-> 0, failed |-> FALSE, raised |-> FALSE,
     steps |-> <<>>]

\* _create_plan whose model call is not guarded.
CreatePlanUnguarded ==
    /\ \A r \in Runs : frames[r].pc \in {"idle", "done", "raised"}
    /\ IF ~config.enable_planning
       THEN plan' = [NoPlan EXCEPT !.called = TRUE]
       ELSE \E reply \in PlannerOutcomes :
               plan' = IF reply.kind = "raise"
                       THEN [NoPlan EXCEPT !.called = TRUE, !.model_calls = 1,
                                           !.failed = TRUE, !.raised = TRUE]
                       ELSE [NoPlan EXCEPT !.called = TRUE, !.model_calls = 1,
                                           !.steps = PlanSteps(reply.text)]
    /\ UNCHANGED <<breaker, smart, analysis, registry, config, tools,
                   model_outputs, tool_outcomes, state,
                   thought_history, heap, frames, results, response, parsed>>

\* _create_plan(task), called by the owner of the orchestrator between runs:
\* [] when planning is disabled; otherwise one model call, whose failure is
\* caught and gives [], and whose reply is parsed into its steps.
CreatePlan ==
    /\ \A r \in Runs : frames[r].pc \in {"idle", "done", "raised"}
    /\ IF ~config.enable_planning
       THEN plan' = [NoPlan EXCEPT !.called = TRUE]
       ELSE \E reply \in PlannerOutcomes :
               plan' = IF reply.kind = "raise"
                       THEN [NoPlan EXCEPT !.called = TRUE, !.model_calls = 1,
                                           !.failed = TRUE]
                       ELSE [NoPlan EXCEPT !.called = TRUE, !.model_calls = 1,
                                           !.steps = PlanSteps(reply.text)]
    /\ UNCHANGED <<breaker, smart, analysis, registry, config, tools,
                   model_outputs, tool_outcomes, state,
                   thought_history, heap, frames, results, response, parsed>>

(***************************************************************************)
(* IntentRouter.analyze_intent                                             *)
(***************************************************************************)

RECURSIVE Pow10(_)
Pow10(n) == IF n <= 0 THEN 1 ELSE 10 * Pow10(n - 1)

DigitValue(c) ==
    CHOOSE d \in 0..9 :
        <<"0", "1", "2", "3", "4", "5", "6", "7", "8", "9">>[d + 1] = c

\* int() of a run of digits.
RECURSIVE NatOf(_)
NatOf(digits) ==
    IF digits = <<>> THEN 0
    ELSE 10 * NatOf(SubSeq(digits, 1, Len(digits) - 1))
         + DigitValue(digits[Len(digits)])

\* Python floats, as far as the texts of the model produce them: the finite
\* value mant * 10^exp, nan, or an infinity (mant is its sign).
Finite(mant, exp) == [kind |-> "finite", mant |-> mant, exp |-> exp]

NaN == [kind |-> "nan", mant |-> 0, exp |-> 0]

Infinite(sign) == [kind |-> "inf", mant |-> sign, exp |-> 0]

\* float() raises ValueError or TypeError.
FloatError == [kind |-> "raise", mant |-> 0, exp |-> 0]

\* float(text): white space around, a sign, then nan, inf or infinity in
\* any case, or digits with an optional point and exponent.
FloatOfText(text) ==
    LET t == Strip(text)
        signed == t # <<>> /\ t[1] \in {"+", "-"}
        sign == IF signed /\ t[1] = "-" THEN -1 ELSE 1
        body == IF signed THEN Suffix(t, 2) ELSE t
        int_end == DigitsEnd(body, 1)
        has_frac == int_end <= Len(body) /\ body[int_end] = "."
        frac_end == IF has_frac THEN DigitsEnd(body, int_end + 1) ELSE int_end
        digits == SubSeq(body, 1, int_end - 1) \o
                  (IF has_frac THEN SubSeq(body, int_end + 1, frac_end - 1)
                   ELSE <<>>)
        fraction_digits == IF has_frac THEN frac_end - int_end - 1 ELSE 0
        has_exp == frac_end <= Len(body) /\ body[frac_end] \in {"e", "E"}
        exp_signed == /\ has_exp /\ frac_end + 1 <= Len(body)
                      /\ body[frac_end + 1] \in {"+", "-"}
        exp_from == IF exp_signed THEN frac_end + 2 ELSE frac_end + 1
        exp_end == DigitsEnd(body, exp_from)
        exponent == IF ~has_exp THEN 0
                    ELSE (IF exp_signed /\ body[frac_end + 1] = "-" THEN -1 ELSE 1)
                         * NatOf(SubSeq(body, exp_from, exp_end - 1))
        end == IF has_exp THEN exp_end ELSE frac_end
    IN  IF Upper(body) = <<"N", "A", "N">> THEN NaN
        ELSE IF Upper(body) \in {<<"I", "N", "F">>,
                                 <<"I", "N", "F", "I", "N", "I", "T", "Y">>}
        THEN Infinite(sign)
        ELSE IF \/ digits = <<>>
                \/ has_exp /\ exp_end = exp_from
                \/ end # Len(body) + 1
        THEN FloatError
        ELSE Finite(sign * NatOf(digits), exponent - fraction_digits)

\* float(value) of a decoded JSON value: the number, the text of a string,
\* 1.0 or 0.0 for a boolean; TypeError for null, an object and a list.
FloatOf(value) ==
    IF value.type \in {"number", "string"} THEN FloatOfText(value.text)
    ELSE IF value.type = "bool"
    THEN Finite(IF value.text = <<"t", "r", "u", "e">> THEN 1 ELSE 0, 0)
    ELSE FloatError

\* x >= hundredths / 100 and x <= hundredths / 100; every comparison with
\* nan is false.
AtLeast(x, hundredths) ==
    IF x.kind = "finite"
    THEN IF x.exp + 2 >= 0 THEN x.mant * Pow10(x.exp + 2) >= hundredths
         ELSE x.mant >= hundredths * Pow10(0 - (x.exp + 2))
    ELSE x.kind = "inf" /\ x.mant > 0

AtMost(x, hundredths) ==
    IF x.kind = "finite"
    THEN IF x.exp + 2 >= 0 THEN x.mant * Pow10(x.exp + 2) <= hundredths
         ELSE x.mant <= hundredths * Pow10(0 - (x.exp + 2))
    ELSE x.kind = "inf" /\ x.mant < 0

\* The backquote character, which a string of this language cannot hold,
\* is written as a caret in the texts of the model.
BackQuote == "^"

\* The opening of a fenced json block (three backquotes and `json`) and the
\* closing fence.
FenceOpen == <<BackQuote, BackQuote, BackQuote, "j", "s", "o", "n">>

Fence == <<BackQuote, BackQuote, BackQuote>>

\* The text _parse_analysis_result decodes: the content of the first fenced
\* json block without the white space around it (group 1 of the first
\* re.search), else the text from the first opening brace to the last
\* closing brace (the second re.search), else ValueError (None).
ExtractJson(result_text) ==
    LET open == Find(result_text, FenceOpen)
        from == SpaceEnd(result_text, open + Len(FenceOpen))
        closes == {e \in from..(Len(result_text) + 1) :
                      IsAt(result_text, Fence, SpaceEnd(result_text, e))}
        close == CHOOSE e \in closes : \A x \in closes : e <= x
        lefts == {i \in 1..Len(result_text) : result_text[i] = "{"}
        left == CHOOSE i \in lefts : \A x \in lefts : i <= x
        rights == {i \in 1..Len(result_text) : result_text[i] = "}" /\ i > left}
        right == CHOOSE i \in rights : \A x \in rights : i >= x
    IN  IF open # 0 /\ closes # {}
        THEN Some(SubSeq(result_text, from, close - 1))
        ELSE IF lefts # {} /\ rights # {}
        THEN Some(SubSeq(result_text, left, right))
        ELSE None

\* data.get(key, default) on the items of a decoded object.
Get(items, key, default) ==
    IF \E k \in 1..Len(items) : items[k].key = key
    THEN items[CHOOSE k \in 1..Len(items) : items[k].key = key].value
    ELSE default

IntentTypes ==
    {<<"k", "n", "o", "w", "l", "e", "d", "g", "e", "_", "b", "a", "s", "e">>,
     <<"w", "e", "b", "_", "s", "e", "a", "r", "c", "h">>,
     <<"d", "i", "r", "e", "c", "t", "_", "a", "n", "s", "w", "e", "r">>,
     <<"c", "o", "n", "v", "e", "r", "s", "a", "t", "i", "o", "n">>,
     <<"f", "i", "l", "e", "_", "o", "p", "e", "r", "a", "t", "i", "o", "n">>,
     <<"m", "u", "l", "t", "i", "_", "s", "t", "e", "p">>,
     <<"t", "r", "e", "n", "d", "i", "n", "g">>}

MULTI_STEP == <<"m", "u", "l", "t", "i", "_", "s", "t", "e", "p">>

\* An IntentAnalysis, as far as its consumers look at it: the intent and
\* the confidence. fallback records that it comes from the except branch of
\* analyze_intent, ok that a call returned it.
IntentAnalysis(intent, confidence, fallback) ==
    [ok |-> TRUE, intent |-> intent, confidence |-> confidence,
     fallback |-> fallback]

\* _parse_analysis_result raised.
ParseFailed ==
    [ok |-> FALSE, intent |-> MULTI_STEP, confidence |-> FloatError,
     fallback |-> FALSE]

\* The return statement of _parse_analysis_result for the value of
\* data.get("intent", "multi_step") and of float(data.get("confidence",
\* 0.5)): a dict or a list as the key of intent_map.get is unhashable
\* (TypeError), any other value that is no key of the map gives MULTI_STEP.
IntentOfFields(intent_str, confidence) ==
    IF intent_str.type \in {"object", "array"} THEN ParseFailed
    ELSE IF confidence.kind = "raise" THEN ParseFailed
    ELSE IntentAnalysis(
             IF intent_str.type = "string" /\ intent_str.text \in IntentTypes
             THEN intent_str.text ELSE MULTI_STEP,
             confidence, FALSE)

\* _parse_analysis_result from the result of json.loads on: a failed decode
\* is re-raised, a decoded value that is no dict has no get
\* (AttributeError).
ParseData(data) ==
    IF ~data.ok \/ data.value.type # "object" THEN ParseFailed
    ELSE IntentOfFields(
             Get(data.value.items, <<"i", "n", "t", "e", "n", "t">>,
                 JsonString(MULTI_STEP)),
             IF \E k \in 1..Len(data.value.items) :
                    data.value.items[k].key =
                        <<"c", "o", "n", "f", "i", "d", "e", "n", "c", "e">>
             THEN FloatOf(Get(data.value.items,
                      <<"c", "o", "n", "f", "i", "d", "e", "n", "c", "e">>,
                      JsonNull))
             ELSE Finite(5, -1))

\* _parse_analysis_result from the extracted text on: ValueError when there
\* is none, else json.loads of it.
ParseJsonStr(json_str) ==
    IF json_str.isNone THEN ParseFailed
    ELSE ParseData(JsonLoads(json_str.text))

\* _parse_analysis_result(result_text): the IntentAnalysis, or ParseFailed
\* when no JSON is found (ValueError), json.loads fails, the decoded value is
\* no dict (AttributeError), the intent is a dict or a list (unhashable,
\* TypeError) or float() raises
\* (TypeError, ValueError).
ParseAnalysisResult(result_text) == ParseJsonStr(ExtractJson(result_text))

\* The IntentAnalysis of analyze_intent's except branch.
DefaultAnalysis == IntentAnalysis(MULTI_STEP, Finite(5, -1), TRUE)

\* The try block of analyze_intent after the model call: what
\* _parse_analysis_result returned, or the default when it raised.
ReturnedOrDefault(parsed_reply) ==
    IF parsed_reply.ok THEN parsed_reply ELSE DefaultAnalysis

\* analyze_intent's result for what its model call does: the parsed reply,
\* or, from the except branch, multi_step with confidence 0.5.
AnalyzeIntentResult(reply) ==
    IF reply.kind = "raise" THEN DefaultAnalysis
    ELSE ReturnedOrDefault(ParseAnalysisResult(reply.text))

\* No call of analyze_intent yet.
NoAnalysis == [called |-> FALSE, reply |-> [kind |-> "raise", text |-> <<>>],
               result |-> ParseFailed]

\* The intents smart_query() answers without the reasoning loop.
KNOWLEDGE_BASE == <<"k", "n", "o", "w", "l", "e", "d", "g", "e", "_", "b", "a", "s", "e">>

DIRECT_ANSWER == <<"d", "i", "r", "e", "c", "t", "_", "a", "n", "s", "w", "e", "r">>

CONVERSATION == <<"c", "o", "n", "v", "e", "r", "s", "a", "t", "i", "o", "n">>

\* The name under which RAGAgent.setup_tools registers RAGSearchTool.
RagSearch == <<"r", "a", "g", "_", "s", "e", "a", "r", "c", "h">>

\* rag_search was not executed.
NoRagCall == [called |-> FALSE, success |-> FALSE, output |-> <<>>]

\* What RAGSearchTool.execute returns (it catches its own exceptions): an
\* answer, a success without text, or a failure.
RagOutcomes ==
    {[called |-> TRUE, success |-> TRUE, output |-> <<"o">>],
     [called |-> TRUE, success |-> TRUE, output |-> <<>>],
     [called |-> TRUE, success |-> FALSE, output |-> <<>>]}

\* The model call of _handle_conversation_intent and _handle_direct_answer.
HandlerOutcomes ==
    {[kind |-> "reply", text |-> <<"a">>], [kind |-> "raise", text |-> <<>>]}

\* No smart_query() call yet. handler and rag record the calls made before
\* the routing was settled, run_calls the calls of run().
IdleQuery ==
    [pc |-> "idle", run_calls |-> 0, handler |-> "none", rag |-> NoRagCall,
     response |-> <<>>]

\* smart_query fetches and executes rag_search.
RagConsulted(a) ==
    /\ a.intent = KNOWLEDGE_BASE
    /\ AtLeast(a.confidence, 80)
    /\ RagSearch \in tools

\* The branch smart_query takes for the analysis a.
Route(a, rag) ==
    IF a.intent = CONVERSATION THEN "conversation"
    ELSE IF a.intent = DIRECT_ANSWER THEN "direct_answer"
    ELSE IF RagConsulted(a) /\ rag.success /\ rag.output # <<>> THEN "rag_search"
    ELSE "run"

\* The AgentResponse of a branch that does not call run(); thought_process
\* is a new empty list.
DirectResponse(route, handler, rag, steps) ==
    IF route = "rag_search"
    THEN [success |-> TRUE, answer |-> [kind |-> "rag_search", text |-> rag.output],
          thought_process |-> steps, tools_used |-> <<RagSearch>>,
          iterations |-> 1, final_reflection |-> None]
    ELSE IF handler.kind = "raise"
    THEN [success |-> FALSE, answer |-> [kind |-> "handler_failed", text |-> <<>>],
          thought_process |-> steps, tools_used |-> <<>>,
          iterations |-> 0, final_reflection |-> None]
    ELSE [success |-> TRUE, answer |-> [kind |-> route, text |-> handler.text],
          thought_process |-> steps, tools_used |-> <<>>,
          iterations |-> 1, final_reflection |-> None]

(***************************************************************************)
(* CircuitBreaker                                                          *)
(***************************************************************************)

\* CircuitBreakerConfig(): the defaults of the dataclass.
CircuitBreakerConfig ==
    [failure_threshold |-> 5, success_threshold |-> 3, timeout |-> 60,
     half_open_max_calls |-> 3]

\* The clock time.time() reads when the breaker is made (a positive number
\* of seconds), and the seconds it advances in one step.
StartTime == 30

ClockStep == 30

\* CircuitBreaker.__init__. last_failure_time is <<>> for None, else <<t>>.
\* now is the clock; in_flight the requests let through and not yet
\* reported; admitted counts, for the properties, the requests
\* _should_allow_request has let through since the breaker entered
\* HALF_OPEN (0 outside HALF_OPEN), and last tells about its last call: the
\* state it found,
\* whether the timeout had passed since the last failure, and its answer.
NewBreaker(breaker_config) ==
    [config |-> breaker_config, state |-> "closed", failure_count |-> 0,
     success_count |-> 0, last_failure_time |-> <<>>, half_open_calls |-> 0,
     now |-> StartTime, admitted |-> 0, in_flight |-> 0,
     last |-> [called |-> FALSE, allowed |-> FALSE, state |-> "closed",
               waited |-> FALSE]]

\* `self.last_failure_time and
\*  time.time() - self.last_failure_time >= self.config.timeout`
TimeoutPassed(b) ==
    /\ b.last_failure_time # <<>>
    /\ b.last_failure_time[1] # 0
    /\ b.now - b.last_failure_time[1] >= b.config.timeout

\* _should_allow_request, under the lock: the answer and the breaker after.
AllowRequest(b) ==
    IF b.state = "closed" THEN [allowed |-> TRUE, breaker |-> b]
    ELSE IF b.state = "open"
    THEN IF TimeoutPassed(b)
         THEN [allowed |-> TRUE,
               breaker |-> [b EXCEPT !.state = "half_open",
                                     !.half_open_calls = 0,
                                     !.success_count = 0]]
         ELSE [allowed |-> FALSE, breaker |-> b]
    ELSE IF b.half_open_calls < b.config.half_open_max_calls
    THEN [allowed |-> TRUE, breaker |-> [b EXCEPT !.half_open_calls = @ + 1]]
    ELSE [allowed |-> FALSE, breaker |-> b]

\* record_success, under the lock.
RecordSuccessOn(b) ==
    IF b.state = "half_open"
    THEN IF b.success_count + 1 >= b.config.success_threshold
         THEN [b EXCEPT !.success_count = @ + 1, !.state = "closed",
                        !.failure_count = 0]
         ELSE [b EXCEPT !.success_count = @ + 1]
    ELSE IF b.state = "closed"
    THEN [b EXCEPT !.failure_count = IF @ - 1 > 0 THEN @ - 1 ELSE 0]
    ELSE b

\* record_failure, under the lock.
RecordFailureOn(b) ==
    LET c == [b EXCEPT !.last_failure_time = <<b.now>>] IN
    IF c.state = "half_open" THEN [c EXCEPT !.state = "open"]
    ELSE IF c.state = "closed"
    THEN IF c.failure_count + 1 >= c.config.failure_threshold
         THEN [c EXCEPT !.failure_count = @ + 1, !.state = "open"]
         ELSE [c EXCEPT !.failure_count = @ + 1]
    ELSE c

\* The orchestrator after __init__: state IDLE, an empty thought_history.
InitAgent ==
    /\ state = "idle"
    /\ heap = << <<>> >>
    /\ thought_history = 1
    /\ frames = [r \in Runs |-> IdleFrame]
    /\ results = [r \in Runs |-> <<>>]
    /\ registry = RegistryOf(tools)
    /\ plan = NoPlan
    /\ analysis = NoAnalysis
    /\ smart = IdleQuery
    /\ breaker = NewBreaker(CircuitBreakerConfig)

\* One run on an orchestrator, for every configuration and registry.
Init ==
    /\ config \in [max_iterations : 0..MaxIterations,
                   enable_reflection : BOOLEAN, verbose : BOOLEAN]
    /\ tools \in {{}, {ToolS}}
    /\ model_outputs = ModelOutputs
    /\ tool_outcomes = ToolOutcomes
    /\ InitAgent
    /\ response = <<>>
    /\ parsed = <<>>

Step(r) ==
    \/ \E m \in Modes : StartRun(r, m)
    \/ LLMInvoke(r)
    \/ StreamOpen(r)
    \/ StreamChunk(r)
    \/ StreamFail(r)
    \/ StreamClose(r)
    \/ ExecuteTool(r)
    \/ AfterLoop(r)
    \/ ReflectCall(r)

Next == Step(1)

Spec == Init /\ [][Next]_vars

\* One call with a longer budget and a small repertoire: the model names the
\* registered tool or answers, the tool succeeds.
MaxIterationsLong == 3

InitLong ==
    /\ config \in [max_iterations : 0..MaxIterationsLong,
                   enable_reflection : BOOLEAN, verbose : {FALSE}]
    /\ tools = {ToolS}
    /\ model_outputs = {OutActionS, OutFinal}
    /\ tool_outcomes = {o \in ToolOutcomes : o.kind = "success" /\ ~o.output.isNone}
    /\ InitAgent
    /\ response = <<>>
    /\ parsed = <<>>

NextLong == Step(1)

SpecLong == InitLong /\ [][NextLong]_vars


\* One call whose model names a tool without an `Action Input:` block, with
\* a block that holds no object (plain text, or a brace never closed), or
\* with an object.
OutActionInputText == OutActionS \o <<"\n">> \o InputMarker \o <<" ", "q">>

OutActionInputOpen == OutActionS \o <<"\n">> \o InputMarker \o <<" ", "{">>

OutActionInputObject ==
    OutActionS \o <<"\n">> \o InputMarker \o <<" ", "{", "\"", "a", "\"", ":", " ", "1", "}">>

InitArgs ==
    /\ config \in [max_iterations : 0..MaxIterations,
                   enable_reflection : {FALSE}, verbose : BOOLEAN]
    /\ tools \in {{}, {ToolS}}
    /\ model_outputs = {OutActionS, OutActionInputText, OutActionInputOpen,
                        OutActionInputObject, OutFinal}
    /\ tool_outcomes = ToolOutcomes
    /\ InitAgent
    /\ response = <<>>
    /\ parsed = <<>>

NextArgs ==
    \/ \E m \in Modes : StartRun(1, m)
    \/ LLMInvoke(1)
    \/ StreamOpen(1)
    \/ StreamChunk(1)
    \/ StreamFail(1)
    \/ StreamClose(1)
    \/ ExecuteTool(1)
    \/ AfterLoop(1)

SpecArgs == InitArgs /\ [][NextArgs]_vars

\* One run_stream() call of one iteration whose model answers at once: with
\* blanks around the answer, after a thought, with a blank answer, or with
\* the marker written twice; the output arrives in any fragmentation.
OutFinalSpaced == FinalMarker \o <<" ", " ", "x", " ", "y", " ">>

OutThoughtFinal == <<"h", "m", "\n">> \o FinalMarker \o <<"\n", "x", "\n">>

OutFinalTwice == FinalMarker \o <<"a">> \o FinalMarker \o <<"b">>

InitTokens ==
    /\ config = [max_iterations |-> 1, enable_reflection |-> FALSE,
                 verbose |-> FALSE]
    /\ tools = {}
    /\ model_outputs = {OutFinal, OutFinalBlank, OutFinalSpaced,
                        OutThoughtFinal, OutFinalTwice}
    /\ tool_outcomes = ToolOutcomes
    /\ InitAgent
    /\ response = <<>>
    /\ parsed = <<>>

NextTokens ==
    \/ StartRun(1, "stream")
    \/ StreamOpen(1)
    \/ StreamChunk(1)
    \/ StreamFail(1)
    \/ StreamClose(1)
    \/ AfterLoop(1)

SpecTokens == InitTokens /\ [][NextTokens]_vars

\* One run_stream() generator pulled by a consumer that may stop after any
\* event.
NextPull == Pull(1)

SpecPull == Init /\ [][NextPull]_vars


\* One call, in either form, on an orchestrator with or without planning,
\* whose owner may ask for a plan before and after the call.
InitPlan ==
    /\ config \in [max_iterations : 0..MaxIterations,
                   enable_reflection : BOOLEAN, verbose : {FALSE},
                   enable_planning : BOOLEAN]
    /\ tools = {ToolS}
    /\ model_outputs = ModelOutputs
    /\ tool_outcomes = ToolOutcomes
    /\ InitAgent
    /\ response = <<>>
    /\ parsed = <<>>

NextPlan == Step(1) \/ CreatePlan

SpecPlan == InitPlan /\ [][NextPlan]_vars


\* The replies of the classifier's model: a JSON object with or without an
\* intent and a confidence, given bare, in a fenced json block or inside
\* prose; a text without JSON; or the call raises.
IntentValues ==
    {<<"\"", "k", "n", "o", "w", "l", "e", "d", "g", "e", "_", "b", "a", "s", "e", "\"">>,
     <<"\"", "d", "i", "r", "e", "c", "t", "_", "a", "n", "s", "w", "e", "r", "\"">>,
     <<"\"", "c", "o", "n", "v", "e", "r", "s", "a", "t", "i", "o", "n", "\"">>,
     <<"\"", "w", "e", "b", "_", "s", "e", "a", "r", "c", "h", "\"">>,
     <<"\"", "c", "h", "a", "t", "\"">>,
     <<"1">>,
     <<"{", "\"", "a", "\"", ":", " ", "1", "}">>}

ConfidenceValues ==
    {<<"0", ".", "9">>,
     <<"0", ".", "8">>,
     <<"0", ".", "7", "9">>,
     <<"1">>,
     <<"1", ".", "5">>,
     <<"-", "1">>,
     <<"0">>,
     <<"9", "5">>,
     <<"\"", "0", ".", "5", "\"">>,
     <<"\"", "h", "i", "g", "h", "\"">>,
     <<"N", "a", "N">>,
     <<"t", "r", "u", "e">>,
     <<"n", "u", "l", "l">>,
     <<"1", "e", "-", "1">>,
     <<"I", "n", "f", "i", "n", "i", "t", "y">>}

\* The object with the given members; <<>> leaves a member out.
ObjectText(intent_value, confidence_value) ==
    LET intent_member == IF intent_value = <<>> THEN <<>>
                         ELSE <<"\"", "i", "n", "t", "e", "n", "t", "\"", ":", " ">> \o intent_value
        confidence_member == IF confidence_value = <<>> THEN <<>>
                             ELSE <<"\"", "c", "o", "n", "f", "i", "d", "e", "n", "c", "e", "\"", ":", " ">> \o confidence_value
        comma == IF intent_member # <<>> /\ confidence_member # <<>>
                 THEN <<",", " ">> ELSE <<>>
    IN  <<"{">> \o intent_member \o comma \o confidence_member \o <<"}">>

Wrapped(text, wrap) ==
    IF wrap = "fenced" THEN FenceOpen \o <<"\n">> \o text \o <<"\n">> \o Fence
    ELSE IF wrap = "prose" THEN <<"o", "k", " ">> \o text \o <<" ", "o", "k">>
    ELSE text

IntentReplies ==
    {[kind |-> "reply", text |-> ObjectText(i, c)] :
        i \in IntentValues \cup {<<>>}, c \in ConfidenceValues \cup {<<>>}}
    \cup {[kind |-> "reply",
           text |-> Wrapped(ObjectText(<<>>, c), w)] :
              c \in {<<"0", ".", "9">>, <<"1", ".", "5">>},
              w \in {"fenced", "prose"}}
    \cup {[kind |-> "reply", text |-> <<"o", "k">>],
          [kind |-> "raise", text |-> <<>>]}

\* analyze_intent(question): one model call and the parse of its reply.
AnalyzeIntent ==
    /\ \E reply \in IntentReplies :
          analysis' = [called |-> TRUE, reply |-> reply,
                       result |-> AnalyzeIntentResult(reply)]
    /\ UNCHANGED <<breaker, smart, plan, registry, config, tools, model_outputs,
                   tool_outcomes, state, thought_history, heap, frames, results,
                   response, parsed>>

\* The classifier alone, called any number of times.
InitIntent ==
    /\ config = [max_iterations |-> 1, enable_reflection |-> FALSE,
                 verbose |-> FALSE]
    /\ tools = {ToolS}
    /\ model_outputs = ModelOutputs
    /\ tool_outcomes = ToolOutcomes
    /\ InitAgent
    /\ response = <<>>
    /\ parsed = <<>>

NextIntent == AnalyzeIntent

SpecIntent == InitIntent /\ [][NextIntent]_vars


\* smart_query(question) after analyze_intent returned the analysis a: the
\* conversation handler, the direct-answer handler, rag_search, or
\* run(question, chat_history).
SmartQueryRouted(reply, handler, rag, a) ==
    LET route == Route(a, rag)
        handled == route \in {"conversation", "direct_answer"}
        q == [smart EXCEPT
                 !.handler = IF handled THEN handler.kind ELSE "none",
                 !.rag = IF ~handled /\ RagConsulted(a) THEN rag
                         ELSE NoRagCall]
    IN  /\ analysis' = [called |-> TRUE, reply |-> reply, result |-> a]
        /\ IF route = "run"
           THEN /\ BeginRun(1, "run")
                /\ smart' = [q EXCEPT !.pc = "running", !.run_calls = @ + 1]
                /\ results' = results
           ELSE /\ frames[1].pc = "idle"
                /\ heap' = Append(heap, <<>>)
                /\ smart' = [q EXCEPT
                       !.pc = "returned",
                       !.response = <<DirectResponse(route, handler, rag,
                                                     Len(heap) + 1)>>]
                /\ UNCHANGED <<state, thought_history, frames, results>>

\* smart_query(question) up to its first return or to the start of run():
\* analyze_intent, then the branch its analysis selects.
SmartQuery(replies) ==
    /\ smart.pc = "idle"
    /\ \E reply \in replies, handler \in HandlerOutcomes, rag \in RagOutcomes :
          SmartQueryRouted(reply, handler, rag, AnalyzeIntentResult(reply))
    /\ UNCHANGED <<breaker, plan, registry, config, tools, model_outputs,
                   tool_outcomes, response, parsed>>

\* run() is over: smart_query returns its response, or the exception that
\* left run() leaves smart_query too.
SmartReturn ==
    /\ smart.pc = "running"
    /\ \/ /\ frames[1].pc = "done"
          /\ smart' = [smart EXCEPT !.pc = "returned", !.response = results[1]]
       \/ /\ frames[1].pc = "raised"
          /\ smart' = [smart EXCEPT !.pc = "raised"]
    /\ UNCHANGED <<breaker, analysis, plan, registry, config, tools, model_outputs,
                   tool_outcomes, state, thought_history, heap, frames, results,
                   response, parsed>>

\* The classifier's replies to one question: four intents with confidences
\* around the threshold, outside the unit interval, not a number or missing;
\* a reply without JSON; a failed call.
SmartReplies ==
    {[kind |-> "reply", text |-> ObjectText(i, c)] :
        i \in {<<"\"", "k", "n", "o", "w", "l", "e", "d", "g", "e", "_", "b", "a", "s", "e", "\"">>, <<"\"", "d", "i", "r", "e", "c", "t", "_", "a", "n", "s", "w", "e", "r", "\"">>, <<"\"", "c", "o", "n", "v", "e", "r", "s", "a", "t", "i", "o", "n", "\"">>, <<"\"", "w", "e", "b", "_", "s", "e", "a", "r", "c", "h", "\"">>},
        c \in {<<"0", ".", "9">>, <<"0", ".", "8">>, <<"0", ".", "7", "9">>, <<"1", ".", "5">>, <<"N", "a", "N">>, <<"\"", "h", "i", "g", "h", "\"">>, <<>>}}
    \cup {[kind |-> "reply", text |-> <<"o", "k">>],
          [kind |-> "raise", text |-> <<>>]}

\* One smart_query() call on a RAGAgent with or without rag_search.
InitSmart ==
    /\ config \in [max_iterations : {1}, enable_reflection : {FALSE},
                   verbose : BOOLEAN]
    /\ tools \in {{ToolS}, {ToolS, RagSearch}}
    /\ model_outputs = {OutFinal, OutActionS}
    /\ tool_outcomes = ToolOutcomes
    /\ InitAgent
    /\ response = <<>>
    /\ parsed = <<>>

NextSmart ==
    \/ SmartQuery(SmartReplies)
    \/ LLMInvoke(1)
    \/ ExecuteTool(1)
    \/ AfterLoop(1)
    \/ SmartReturn

SpecSmart == InitSmart /\ [][NextSmart]_vars


\* One breaker shared by callers that go through the wrapper of
\* with_circuit_breaker: each asks _should_allow_request, and one that is
\* let through reports a success or a failure when its call is over, or
\* nothing when it is cancelled. At most MaxCallers calls are under way at
\* a time, and the clock runs up to MaxTime.
MaxCallers == 5

MaxTime == 150

\* The "llm" entry of CircuitBreakerManager._configs and the default.
BreakerConfigs ==
    {[failure_threshold |-> 3, success_threshold |-> 3, timeout |-> 30,
      half_open_max_calls |-> 3],
     CircuitBreakerConfig}

\* A caller enters the wrapper: _should_allow_request().
ShouldAllowRequest ==
    LET answer == AllowRequest(breaker)
        b == answer.breaker
    IN  /\ answer.allowed => breaker.in_flight < MaxCallers
        /\ breaker' =
              [b EXCEPT
                  !.in_flight = IF answer.allowed THEN @ + 1 ELSE @,
                  !.admitted = IF breaker.state = "open" /\ b.state = "half_open"
                               THEN 1
                               ELSE IF answer.allowed /\ breaker.state = "half_open"
                               THEN @ + 1 ELSE @,
                  !.last = [called |-> TRUE, allowed |-> answer.allowed,
                            state |-> breaker.state,
                            waited |-> TimeoutPassed(breaker)]]
        /\ UNCHANGED <<smart, analysis, plan, registry, config, tools,
                       model_outputs, tool_outcomes, state, thought_history,
                       heap, frames, results, response, parsed>>

\* The wrapped call returned: record_success().
RecordSuccess ==
    /\ breaker.in_flight > 0
    /\ breaker' = [RecordSuccessOn(breaker) EXCEPT
                       !.in_flight = @ - 1,
                       !.admitted = IF RecordSuccessOn(breaker).state = "half_open"
                                    THEN @ ELSE 0]
    /\ UNCHANGED <<smart, analysis, plan, registry, config, tools,
                   model_outputs, tool_outcomes, state, thought_history,
                   heap, frames, results, response, parsed>>

\* The wrapped call raised an Exception: record_failure().
RecordFailure ==
    /\ breaker.in_flight > 0
    /\ breaker' = [RecordFailureOn(breaker) EXCEPT
                       !.in_flight = @ - 1,
                       !.admitted = IF RecordFailureOn(breaker).state = "half_open"
                                    THEN @ ELSE 0]
    /\ UNCHANGED <<smart, analysis, plan, registry, config, tools,
                   model_outputs, tool_outcomes, state, thought_history,
                   heap, frames, results, response, parsed>>

\* The wrapped call was cancelled (CancelledError is no Exception): nothing
\* is recorded.
Cancelled ==
    /\ breaker.in_flight > 0
    /\ breaker' = [breaker EXCEPT !.in_flight = @ - 1]
    /\ UNCHANGED <<smart, analysis, plan, registry, config, tools,
                   model_outputs, tool_outcomes, state, thought_history,
                   heap, frames, results, response, parsed>>

\* Time passes.
Tick ==
    /\ breaker.now + ClockStep <= MaxTime
    /\ breaker' = [breaker EXCEPT !.now = @ + ClockStep]
    /\ UNCHANGED <<smart, analysis, plan, registry, config, tools,
                   model_outputs, tool_outcomes, state, thought_history,
                   heap, frames, results, response, parsed>>

InitBreaker ==
    /\ config = [max_iterations |-> 0, enable_reflection |-> FALSE,
                 verbose |-> FALSE]
    /\ tools = {}
    /\ model_outputs = {}
    /\ tool_outcomes = {}
    /\ state = "idle"
    /\ heap = << <<>> >>
    /\ thought_history = 1
    /\ frames = [r \in Runs |-> IdleFrame]
    /\ results = [r \in Runs |-> <<>>]
    /\ registry = RegistryOf(tools)
    /\ plan = NoPlan
    /\ analysis = NoAnalysis
    /\ smart = IdleQuery
    /\ breaker \in {NewBreaker(c) : c \in BreakerConfigs}
    /\ response = <<>>
    /\ parsed = <<>>

NextBreaker ==
    \/ ShouldAllowRequest
    \/ RecordSuccess
    \/ RecordFailure
    \/ Cancelled
    \/ Tick

SpecBreaker == InitBreaker /\ [][NextBreaker]_vars


\* Two calls on one orchestrator whose steps may interleave: two threads in
\* run(), or a consumer that pulls two run_stream() generators in turn.
InitConc ==
    /\ config \in [max_iterations : 1..MaxIterationsConc,
                   enable_reflection : BOOLEAN, verbose : {FALSE}]
    /\ tools = {ToolS}
    /\ model_outputs = {OutFinal, OutActionS}
    /\ tool_outcomes = {o \in ToolOutcomes : o.kind = "success" /\ ~o.output.isNone}
    /\ InitAgent
    /\ response = <<>>
    /\ parsed = <<>>

NextConc == \E r \in Runs : Step(r)

SpecConc == InitConc /\ [][NextConc]_vars

\* s is an initial part of t.
IsPrefix(s, t) == Len(s) <= Len(t) /\ SubSeq(t, 1, Len(s)) = s

\* One script played twice on an orchestrator: call 1 is run(), and when it
\* is over call 2 is run_stream() with the same model outputs (arriving in
\* any fragmentation), the model call failing in the same iteration, and the
\* same tool results and critic replies.
SameScript ==
    LET a == frames[1]
        b == frames[2]
    IN  /\ a.pc # "idle" => a.mode = "run"
        /\ b.pc # "idle" =>
              /\ b.mode = "stream"
              /\ a.pc \in {"done", "raised"}
              /\ IsPrefix(b.outputs, a.outputs)
              /\ IsPrefix(b.invoked, a.invoked)
              /\ IsPrefix(b.critic_replies, a.critic_replies)
              /\ b.failed_at # 0 => b.failed_at = a.failed_at
              /\ (b.pc = "streaming" /\ b.iterations <= Len(a.outputs)) =>
                    b.llm_output \o b.pending = a.outputs[b.iterations]

InitPair == Init

NextPair == \E r \in Runs : Step(r) /\ SameScript'

SpecPair == InitPair /\ [][NextPair]_vars

\* Two consecutive calls on one orchestrator: the second starts when the
\* first has returned or raised. Between them the caller may switch
\* reflection on or off.
InitSeq ==
    /\ config \in [max_iterations : 1..MaxIterationsConc,
                   enable_reflection : BOOLEAN, verbose : {FALSE}]
    /\ tools = {ToolS}
    /\ model_outputs = {OutFinal, OutActionS}
    /\ tool_outcomes = {o \in ToolOutcomes : ~o.output.isNone}
    /\ InitAgent
    /\ response = <<>>
    /\ parsed = <<>>

Consecutive == frames[2].pc # "idle" => frames[1].pc \in {"done", "raised"}

\* agent.config.enable_reflection = ... between two calls.
SetReflection ==
    /\ frames[1].pc \in {"done", "raised"} /\ frames[2].pc = "idle"
    /\ \E b \in BOOLEAN :
          /\ b # config.enable_reflection
          /\ config' = [config EXCEPT !.enable_reflection = b]
    /\ UNCHANGED <<breaker, smart, analysis, plan, registry, tools, model_outputs, tool_outcomes, state, thought_history,
                   heap, frames, results, response, parsed>>

NextSeq ==
    \/ \E r \in Runs : Step(r) /\ Consecutive'
    \/ SetReflection

SpecSeq == InitSeq /\ [][NextSeq]_vars

\* Registrations on a new orchestrator and a new ToolRegistry: tools of two
\* names and two categories, registered in any order, any number of times.
ToolUniverse == {Tool(n, c) : n \in {ToolS, ToolU}, c \in ToolCategories}

InitRegistry ==
    /\ config \in [max_iterations : {0}, enable_reflection : {FALSE},
                   verbose : BOOLEAN]
    /\ tools = {}
    /\ model_outputs = {}
    /\ tool_outcomes = {}
    /\ InitAgent
    /\ response = <<>>
    /\ parsed = <<>>

NextRegistry ==
    \/ \E tool \in ToolUniverse : RegisterTool(tool)
    \/ \E tool \in ToolUniverse : Register(tool)

SpecRegistry == InitRegistry /\ [][NextRegistry]_vars

\* The parser on its own: every text of at most MaxPieces pieces.
MaxPieces == 3

ParsePieces ==
    {FinalMarker, ActionMarker, InputMarker, <<" ">>, <<"\n">>, <<"s">>,
     <<"{">>, <<"}">>}

RECURSIVE TextsOf(_)
TextsOf(n) ==
    IF n = 0 THEN {<<>>}
    ELSE LET shorter == TextsOf(n - 1)
         IN  shorter \cup {t \o q : t \in shorter, q \in ParsePieces}

InitParse ==
    /\ config = [max_iterations |-> 0, enable_reflection |-> FALSE,
                 verbose |-> FALSE]
    /\ tools = {}
    /\ model_outputs = {}
    /\ tool_outcomes = {}
    /\ InitAgent
    /\ response \in TextsOf(MaxPieces)
    /\ parsed = <<>>

\* _parse_action(response).
Parse ==
    /\ parsed = <<>>
    /\ parsed' = <<ParseAction(response)>>
    /\ UNCHANGED <<breaker, smart, analysis, plan, registry, config, tools, model_outputs, tool_outcomes, state,
                   thought_history, heap, frames, results, response>>

NextParse == Parse

SpecParse == InitParse /\ [][NextParse]_vars

\* The parser on outputs that carry an object after `Action Input:`:
\* objects nested to depth MaxDepth, whose values are strings (one of them
\* holding a brace), numbers and objects, followed by nothing or by more
\* text with braces.
MaxDepth == 2

JsonScalars == {<<"\"", "s", "\"">>, <<"1">>, <<"\"", "}", "\"">>}

RECURSIVE JsonTexts(_)
JsonTexts(d) ==
    LET values == JsonScalars \cup (IF d = 0 THEN {} ELSE JsonTexts(d - 1))
        a == <<"\"", "a", "\"", ":", " ">>
        b == <<",", " ", "\"", "b", "\"", ":">>
    IN  {<<"{", "}">>}
            \cup {<<"{">> \o a \o v \o <<"}">> : v \in values}
            \cup {<<"{">> \o a \o v \o b \o w \o <<"}">> :
                     v \in values, w \in JsonScalars}

ActionHeads ==
    {<<"A", "c", "t", "i", "o", "n", ":", " ", "s", "\n", "A", "c", "t", "i", "o", "n", " ", "I", "n", "p", "u", "t", ":", " ">>,
     <<"A", "c", "t", "i", "o", "n", ":", " ", "s", "\n">> \o InputMarker \o <<"\n">>}

ObjectTails == {<<>>, <<"\n", "}">>, <<" ", "{", "x", "}">>}

InitJson ==
    /\ config = [max_iterations |-> 0, enable_reflection |-> FALSE,
                 verbose |-> FALSE]
    /\ tools = {}
    /\ model_outputs = {}
    /\ tool_outcomes = {}
    /\ InitAgent
    /\ response \in {h \o j \o t :
                        h \in ActionHeads, j \in JsonTexts(MaxDepth),
                        t \in ObjectTails}
    /\ parsed = <<>>

NextJson == Parse

SpecJson == InitJson /\ [][NextJson]_vars

\* The parser on outputs whose `Action Input:` object has two or three
\* members with repeated keys and string, numeric and boolean values, with
\* and without a trailing comma (with it, json.loads fails).
MemberKeys == {<<"a">>, <<"b">>}

MemberValues ==
    {<<"\"", "x", "\"">>, <<"\"", "y", "\"">>, <<"1">>, <<"2", ".", "5">>, <<"t", "r", "u", "e">>, <<"F", "a", "l", "s", "e">>}

Member(key, value) == <<"\"">> \o key \o <<"\"", ":", " ">> \o value

MemberLists ==
    {<<Member(j, v), Member(k, w)>> :
        j \in MemberKeys, k \in MemberKeys, v \in MemberValues, w \in MemberValues}
    \cup {<<Member(<<"a">>, u), Member(<<"a">>, v), Member(<<"a">>, w)>> :
             u \in MemberValues, v \in MemberValues, w \in MemberValues}

RECURSIVE Joined(_)
Joined(members) ==
    IF Len(members) = 1 THEN members[1]
    ELSE members[1] \o <<",", " ">> \o Joined(Suffix(members, 2))

InitLenient ==
    /\ config = [max_iterations |-> 0, enable_reflection |-> FALSE,
                 verbose |-> FALSE]
    /\ tools = {}
    /\ model_outputs = {}
    /\ tool_outcomes = {}
    /\ InitAgent
    /\ response \in {h \o <<"{">> \o Joined(l) \o t :
                        h \in ActionHeads, l \in MemberLists,
                        t \in {<<"}">>, <<",", "}">>}}
    /\ parsed = <<>>

NextLenient == Parse

SpecLenient == InitLenient /\ [][NextLenient]_vars

(***************************************************************************)
(* Properties                                                              *)
(***************************************************************************)

Returned(r) == results[r] # <<>>

Result(r) == results[r][1]

\* The step list a returned response refers to, as it is now.
Transcript(r) == heap[Result(r).thought_process]

\* The events of a stream that has ended end with `done` or `error`.
StreamEnded(r) ==
    /\ frames[r].events # <<>>
    /\ frames[r].events[Len(frames[r].events)].type \in {"done", "error"}

\* C1: whatever the model and the invoked tool do (return, return a result
\* with output None, fail, raise), no exception leaves run() or
\* run_stream(): a call never ends by raising, and a call that has ended
\* has returned a response, its stream ending with `done` or `error`.
C1_NoExceptionEscapes ==
    \A r \in Runs :
        /\ frames[r].pc # "raised"
        /\ frames[r].pc = "done" =>
              /\ Returned(r)
              /\ frames[r].mode = "stream" => StreamEnded(r)

\* C2: with two calls interleaved on one orchestrator, the transcript of
\* each returned response holds exactly the steps of its own call, in order.
C2_OwnTranscript ==
    \A r \in Runs : Returned(r) => Transcript(r) = frames[r].produced

\* C3: on every return path, the response's iterations is the number of
\* steps of its transcript.
C3_IterationsEqualSteps ==
    \A r \in Runs : Returned(r) => Result(r).iterations = Len(Transcript(r))

\* C4: a response's iterations never exceeds max_iterations, and a call
\* never makes more than max_iterations reasoning model calls.
C4_IterationsBounded ==
    \A r \in Runs :
        /\ Len(frames[r].prompts) <= config.max_iterations
        /\ frames[r].iterations = Len(frames[r].prompts)
        /\ Returned(r) => Result(r).iterations <= config.max_iterations

\* C4's case: a call that used its whole budget of MaxIterations model calls
\* and returned.
C4_Witness ==
    \E r \in Runs :
        /\ Returned(r)
        /\ config.max_iterations = MaxIterations
        /\ Result(r).iterations = MaxIterations
        /\ Len(frames[r].prompts) = MaxIterations

\* The tools_used of the `meta` events of a stream.
MetaToolsUsed(r) ==
    UNION {Range(frames[r].events[i].data.tools_used) :
              i \in {j \in 1..Len(frames[r].events) :
                        frames[r].events[j].type = "meta"}}

\* C5: the tools_used of a response, and of the `meta` event, holds
\* registered names only.
C5_ToolsUsedRegistered ==
    \A r \in Runs :
        /\ Returned(r) => Range(Result(r).tools_used) \subseteq tools
        /\ MetaToolsUsed(r) \subseteq tools

\* C6: when the model call of iteration k raises, the run ends at once:
\* state ERROR, a response with success false and the failure message, the
\* transcript being the steps of iterations 1..k-1, k model calls made, and
\* no tool invocation, model call or critic call after it.
C6_ModelFailureIsFatal ==
    \A r \in Runs :
        LET f == frames[r]
            k == f.failed_at
        IN  k # 0 =>
              /\ f.pc = "done"
              /\ state = "error"
              /\ Returned(r)
              /\ ~Result(r).success
              /\ Result(r).answer = LLMFailedMessage
              /\ Transcript(r) = f.produced
              /\ Len(f.produced) = k - 1
              /\ \A i \in 1..(k - 1) : f.produced[i].step = i
              /\ Len(f.prompts) = k
              /\ \A j \in 1..Len(f.invoked) : f.invoked[j].step < k
              /\ f.critic_calls = 0
              /\ f.mode = "stream" => f.events[Len(f.events)].type = "error"

\* C6's case: the stream of the second model call raises after some
\* fragments, the first iteration having invoked a tool.
C6_Witness ==
    \E r \in Runs :
        /\ frames[r].failed_at = 2
        /\ frames[r].mode = "stream"
        /\ frames[r].llm_output # <<>>
        /\ frames[r].pending # <<>>
        /\ Len(frames[r].invoked) = 1

\* The steps of a call's transcript whose action names no registered tool.
UnknownSteps(r) ==
    {i \in 1..Len(frames[r].produced) :
        /\ ~frames[r].produced[i].action.isNone
        /\ frames[r].produced[i].action # Some(FinalSentinel)
        /\ frames[r].produced[i].action.text \notin tools}

\* Whether the observation obs of step i was fed back: the prompt of the
\* next model call, if there is one, is the prompt of call i followed by the
\* output of call i, the observation and the continue instruction.
FedBack(r, i, obs) ==
    Len(frames[r].prompts) > i =>
        frames[r].prompts[i + 1] =
            ObservationPrompt(frames[r].prompts[i], frames[r].outputs[i], obs)

\* Whether the run went on after step i: no exception left the call, no
\* failure before the next model call, and the call returned at iteration i
\* only with the budget used up.
WentOn(r, i) ==
    /\ frames[r].pc # "raised" \/ frames[r].iterations > i
    /\ frames[r].failed_at = 0 \/ frames[r].failed_at > i
    /\ (Returned(r) /\ Result(r).iterations = i) =>
          /\ i = config.max_iterations
          /\ Result(r).answer = ExhaustedMessage
          /\ state = "completed"

\* C7: an action naming an unknown tool does not fail the run: no tool is
\* executed for it, the step records the observation that names the unknown
\* tool, the next prompt carries it, and the loop goes on.
C7_UnknownToolRecovered ==
    \A r \in Runs :
        /\ \A j \in 1..Len(frames[r].invoked) : frames[r].invoked[j].name \in tools
        /\ frames[r].pc = "raised" => frames[r].thought_step.action.text \in tools
        /\ \A i \in UnknownSteps(r) :
              LET s == frames[r].produced[i] IN
              /\ s.observation = UnknownToolObs(s.action.text)
              /\ \A j \in 1..Len(frames[r].invoked) : frames[r].invoked[j].step # i
              /\ FedBack(r, i, UnknownToolObs(s.action.text))
              /\ WentOn(r, i)

\* C7's case: a step named an unknown tool and the next model call was made.
C7_Witness ==
    \E r \in Runs : \E i \in UnknownSteps(r) :
        /\ Len(frames[r].prompts) > i
        /\ frames[r].produced[i].action.text = ToolU

\* The tool invocations of a call that raised or returned success = false.
FailedInvocations(r) ==
    {j \in 1..Len(frames[r].invoked) :
        frames[r].invoked[j].kind \in {"failure", "raise"}}

\* What a failed invocation does, given the observation text it is said to
\* leave: the step records it, the next prompt carries it, the state is
\* THINKING again and the run goes on.
FailureHandled(r, j, obs) ==
    LET i == frames[r].invoked[j].step IN
    /\ Len(frames[r].produced) >= i
    /\ frames[r].produced[i].observation = obs
    /\ FedBack(r, i, obs)
    /\ WentOn(r, i)
    /\ (frames[r].pc = "loop" /\ frames[r].iterations = i) => state = "thinking"

\* C8 as stated: a tool that raises or returns success = false leaves the
\* observation "tool execution failed: <reason>".
C8_FailureObservation ==
    \A r \in Runs : \A j \in FailedInvocations(r) :
        FailureHandled(r, j, ToolFailedObs(frames[r].invoked[j].error))

\* C8 amended: a result with success = false leaves "tool execution failed:
\* <error>", a raised exception leaves "tool execution exception: <message>";
\* either is recorded on the step and fed back, the state is THINKING again,
\* the run does not fail and nothing is raised to the caller.
C8_FailureObservationByKind ==
    \A r \in Runs : \A j \in FailedInvocations(r) :
        FailureHandled(r, j,
            IF frames[r].invoked[j].kind = "failure"
            THEN ToolFailedObs(frames[r].invoked[j].error)
            ELSE ToolExceptionObs(frames[r].invoked[j].error))

\* C8's case: a tool raised in the first iteration and the second model call
\* was made.
C8_Witness ==
    \E r \in Runs : \E j \in FailedInvocations(r) :
        /\ frames[r].invoked[j].kind = "raise"
        /\ Len(frames[r].prompts) > frames[r].invoked[j].step

\* C9: an output that contains `Final Answer:` parses as a final answer
\* whose text is the trimmed text after the marker, whatever else it holds
\* and whatever follows the marker.
C9_FinalMarkerWins ==
    (parsed # <<>> /\ Contains(response, FinalMarker)) =>
        /\ parsed[1].action_name = Some(FinalSentinel)
        /\ parsed[1].action_input =
              FinalInput(Strip(Suffix(response,
                  Find(response, FinalMarker) + Len(FinalMarker))))

\* C10: an iteration whose output is a final answer invokes no tool, its
\* step is the last of the transcript, no model call follows, and the run
\* returns success = true with that answer and the tools used so far.
C10_FinalAnswerEndsRun ==
    \A r \in Runs :
        LET f == frames[r] IN
        ~f.final_answer.isNone =>
            /\ Len(f.prompts) = f.iterations
            /\ Len(f.produced) = f.iterations
            /\ f.produced[f.iterations].action = Some(FinalSentinel)
            /\ \A j \in 1..Len(f.invoked) : f.invoked[j].step < f.iterations
            /\ Returned(r) =>
                  /\ Result(r).success
                  /\ Result(r).answer = FinalText(f.final_answer.text)
                  /\ Range(Result(r).tools_used) = Range(f.tools_used)
                  /\ Transcript(r) = f.produced

\* The call made no model call that failed and none of its outputs parsed
\* as a final answer.
NoFinalParsed(r) ==
    /\ frames[r].failed_at = 0
    /\ \A i \in 1..Len(frames[r].outputs) :
          ParseAction(frames[r].outputs[i]).action_name # Some(FinalSentinel)

\* C11: a run() that returns after its iterations with no final answer and
\* no failed model call has used all max_iterations iterations, and returns
\* success = False, the fixed exhaustion message and iterations =
\* max_iterations, with the orchestrator in state COMPLETED.
C11_ExhaustionIsSoftFailure ==
    \A r \in Runs :
        (Returned(r) /\ frames[r].mode = "run" /\ NoFinalParsed(r)) =>
            /\ ~Result(r).success
            /\ Result(r).answer = ExhaustedMessage
            /\ Result(r).iterations = config.max_iterations
            /\ Len(frames[r].outputs) = config.max_iterations
            /\ state = "completed"

C11_Witness ==
    /\ Returned(1) /\ frames[1].mode = "run" /\ NoFinalParsed(1)
    /\ config.max_iterations = MaxIterations
    /\ Len(frames[1].outputs) = MaxIterations
    /\ Result(1).answer = ExhaustedMessage

\* How the parser reads the output of iteration i of call r.
ParsedAsFinal(r, i) ==
    ParseAction(frames[r].outputs[i]).action_name = Some(FinalSentinel)

ParsedAsNoAction(r, i) == ParseAction(frames[r].outputs[i]).action_name.isNone

ParsedAsAction(r, i) == ~ParsedAsFinal(r, i) /\ ~ParsedAsNoAction(r, i)

NoActionIterations(r) ==
    {i \in 1..Len(frames[r].outputs) : ParsedAsNoAction(r, i)}

\* C12: an iteration whose output parses as no action invokes no tool and
\* adds nothing to tools_used (tools_used has one entry per executed action
\* iteration and no other), yet appends one step, numbered as the
\* iteration, with the "no valid action" observation; and the next model
\* call gets the previous prompt extended with that output and the
\* corrective instruction.
C12_NoActionReprompts ==
    \A r \in Runs :
        LET f == frames[r] IN
        /\ Len(f.tools_used) =
              Cardinality({i \in 1..Len(f.outputs) : ParsedAsAction(r, i)})
                  - (IF f.pc = "act" THEN 1 ELSE 0)
        /\ \A i \in NoActionIterations(r) :
              /\ \A j \in 1..Len(f.invoked) : f.invoked[j].step # i
              /\ i <= Len(f.produced) /\ i <= f.iterations
              /\ f.produced[i].step = i
              /\ f.produced[i].action.isNone
              /\ f.produced[i].observation = NoActionObs
              /\ i <= Len(heap[thought_history])
              /\ heap[thought_history][i] = f.produced[i]
              /\ Len(f.prompts) > i =>
                    f.prompts[i + 1] =
                        f.prompts[i] \o
                            <<PromptPart("llm_output", f.outputs[i], NullObs),
                              PromptPart("corrective", <<>>, NullObs)>>

\* A no-action iteration followed by a model call whose output names a tool
\* that is then executed, in a call that has returned.
C12_Witness ==
    /\ Returned(1)
    /\ 1 \in NoActionIterations(1)
    /\ Len(frames[1].prompts) > 1
    /\ Len(frames[1].tools_used) = 1

\* A step's observation is None: never set (the field's default), or set to
\* the None a tool returned as its output.
ObservationMissing(step) == step.observation \in {NullObs, NoneObs}

\* C13: in the transcript of every returned response, a step with an action
\* has an observation, and no step is without both.
C13_ActionHasObservation ==
    \A r \in Runs :
        Returned(r) =>
            \A i \in 1..Len(Transcript(r)) :
                LET step == Transcript(r)[i] IN
                /\ ~step.action.isNone => ~ObservationMissing(step)
                /\ ~(step.action.isNone /\ ObservationMissing(step))

\* The same with tools that never return None as their output.
C13_WithTextOutputs ==
    \A r \in Runs :
        (/\ Returned(r)
         /\ \A j \in 1..Len(frames[r].invoked) :
               frames[r].invoked[j].kind = "success" =>
                   ~frames[r].invoked[j].output.isNone) =>
            \A i \in 1..Len(Transcript(r)) :
                ~ObservationMissing(Transcript(r)[i])

\* A step names a tool; a step is the one that carried the final answer.
HasCapabilityAction(step) ==
    ~step.action.isNone /\ step.action.text # FinalSentinel

HasFinalAnswer(step) ==
    step.action = Some(FinalSentinel) /\ step.observation = FinalReachedObs

\* C14 as stated: every step of a returned transcript has exactly one of a
\* tool action and the final answer.
C14_ExactlyOneOfActionFinal ==
    \A r \in Runs :
        Returned(r) =>
            \A i \in 1..Len(Transcript(r)) :
                HasCapabilityAction(Transcript(r)[i]) #
                    HasFinalAnswer(Transcript(r)[i])

\* C14, amended: no step of a returned transcript has both a tool action
\* and the final answer; a step has neither exactly when the output of its
\* iteration parsed as no action; it has the final answer exactly when the
\* output parsed as final, and then it is the last step and the call has a
\* final answer; it has a tool action exactly when the output named one.
C14_AtMostOneOfActionFinal ==
    \A r \in Runs :
        Returned(r) =>
            /\ Len(Transcript(r)) = Len(frames[r].outputs)
            /\ \A i \in 1..Len(Transcript(r)) :
                  LET step == Transcript(r)[i] IN
                  /\ ~(HasCapabilityAction(step) /\ HasFinalAnswer(step))
                  /\ HasCapabilityAction(step) <=> ParsedAsAction(r, i)
                  /\ HasFinalAnswer(step) <=> ParsedAsFinal(r, i)
                  /\ (~HasCapabilityAction(step) /\ ~HasFinalAnswer(step))
                        <=> ParsedAsNoAction(r, i)
                  /\ HasFinalAnswer(step) =>
                        /\ i = Len(Transcript(r))
                        /\ ~frames[r].final_answer.isNone

\* A returned transcript with a step of each kind that two iterations allow:
\* one with neither, then one with the final answer; and one with a tool.
C14_Witness ==
    /\ Returned(1)
    /\ Len(Transcript(1)) = 2
    /\ \/ /\ ParsedAsNoAction(1, 1)
          /\ HasFinalAnswer(Transcript(1)[2])
       \/ /\ HasCapabilityAction(Transcript(1)[1])
          /\ ParsedAsNoAction(1, 2)

\* C15: in the transcript of every returned response the first step is
\* numbered 1 and the numbers strictly increase in list order; the steps are
\* in iteration order: step i is numbered i and holds the thought of the
\* output of iteration i.
C15_StepNumbersIncrease ==
    \A r \in Runs :
        Returned(r) =>
            LET t == Transcript(r) IN
            /\ t # <<>> => t[1].step = 1
            /\ \A i \in 1..Len(t) : \A j \in 1..Len(t) :
                  i < j => t[i].step < t[j].step
            /\ \A i \in 1..Len(t) :
                  /\ t[i].step = i
                  /\ t[i].thought = ThoughtOf(frames[r].outputs[i])

\* A returned transcript of MaxIterations steps with different thoughts.
C15_Witness ==
    /\ Returned(1)
    /\ Len(Transcript(1)) = MaxIterations
    /\ Transcript(1)[1].thought # Transcript(1)[2].thought

\* The events call r has yielded so far, and the positions of a type.
Events(r) == frames[r].events

EventsOfType(r, type) == {k \in 1..Len(Events(r)) : Events(r)[k].type = type}

\* C16: in the events of run_stream(), every `observation` event comes
\* after an `action` event of the same step, and every `action` and every
\* `answer` event comes after the `thinking_end` event of its step.
C16_EventOrder ==
    \A r \in Runs :
        /\ \A k \in EventsOfType(r, "observation") :
              \E j \in EventsOfType(r, "action") :
                  j < k /\ Events(r)[j].step = Events(r)[k].step
        /\ \A k \in EventsOfType(r, "action") \cup EventsOfType(r, "answer") :
              \E j \in EventsOfType(r, "thinking_end") :
                  j < k /\ Events(r)[j].step = Events(r)[k].step

\* A stream that has ended with an observation in its first iteration and
\* an answer in its second.
C16_Witness ==
    /\ frames[1].mode = "stream" /\ frames[1].pc = "done"
    /\ \E k \in EventsOfType(1, "observation") : Events(1)[k].step = 1
    /\ \E k \in EventsOfType(1, "answer") : Events(1)[k].step = 2

\* run_stream() call r has ended: its generator returned or raised.
StreamOver(r) ==
    frames[r].mode = "stream" /\ frames[r].pc \in {"done", "raised"}

\* The events begin with the one `start`.
OneStart(r) ==
    /\ Events(r) # <<>> /\ Events(r)[1].type = "start"
    /\ EventsOfType(r, "start") = {1}

\* The k-th `iteration` event carries (k, max_iterations) and is directly
\* followed by the `thinking_start` of iteration k.
IterationEvents(r) ==
    /\ Cardinality(EventsOfType(r, "iteration")) = frames[r].iterations
    /\ \A k \in EventsOfType(r, "iteration") :
          LET n == Cardinality({j \in EventsOfType(r, "iteration") : j <= k}) IN
          /\ Events(r)[k].data = <<n, config.max_iterations>>
          /\ k < Len(Events(r))
          /\ Events(r)[k + 1].type = "thinking_start"
          /\ Events(r)[k + 1].step = n

\* The events end with `meta`, `done`, and `meta` agrees with the response.
EndsWithMetaDone(r) ==
    LET n == Len(Events(r)) IN
    /\ n >= 2
    /\ Events(r)[n - 1].type = "meta" /\ Events(r)[n].type = "done"
    /\ Returned(r)
    /\ Events(r)[n - 1].data.tools_used = Result(r).tools_used
    /\ Events(r)[n - 1].data.iterations = Result(r).iterations

\* C17: the events of run_stream() begin with exactly one `start`; iteration
\* k yields `iteration` (k, max) directly followed by `thinking_start`; a
\* stream that is over with no failed model call ends with `meta`, `done`,
\* where `meta` has the tools_used and iterations of the response; nothing
\* follows `done`.
C17_EventShape ==
    \A r \in Runs :
        (frames[r].mode = "stream" /\ frames[r].pc # "idle") =>
            /\ OneStart(r)
            /\ IterationEvents(r)
            /\ \A k \in EventsOfType(r, "done") : k = Len(Events(r))
            /\ (StreamOver(r) /\ frames[r].failed_at = 0) => EndsWithMetaDone(r)

\* The same for the streams whose generator returned.
C17_ShapeOfReturnedStreams ==
    \A r \in Runs :
        (frames[r].mode = "stream" /\ frames[r].pc # "idle") =>
            /\ OneStart(r)
            /\ IterationEvents(r)
            /\ \A k \in EventsOfType(r, "done") : k = Len(Events(r))
            /\ (frames[r].pc = "done" /\ frames[r].failed_at = 0) =>
                  EndsWithMetaDone(r)

\* C18: when a model call of run_stream() raises, before or after some
\* fragments, the stream is over with `error` as its one and last event of
\* that type: no `thinking_end` of the failed iteration, and no `action`,
\* `observation`, `answer`, `meta` or `done` after it; and the response has
\* success = False.
C18_ErrorEndsStream ==
    \A r \in Runs :
        LET n == Len(Events(r)) IN
        /\ (frames[r].mode = "stream" /\ frames[r].failed_at # 0) =>
              /\ frames[r].pc = "done"
              /\ n >= 1 /\ Events(r)[n].type = "error"
              /\ \A k \in EventsOfType(r, "thinking_end") :
                    Events(r)[k].step < frames[r].failed_at
              /\ EventsOfType(r, "meta") = {} /\ EventsOfType(r, "done") = {}
              /\ Returned(r) /\ ~Result(r).success
        /\ \A k \in EventsOfType(r, "error") :
              k = n /\ frames[r].failed_at # 0

\* The model's stream raises in the second iteration after it has delivered
\* a fragment that completed the final-answer marker.
C18_Witness ==
    /\ frames[1].mode = "stream" /\ frames[1].failed_at = 2
    /\ frames[1].llm_output # <<>>
    /\ frames[1].is_final_answer
    /\ Events(1)[Len(Events(1))].type = "error"

\* The events call r yielded in its current iteration after thinking_start.
IterationTail(r) ==
    LET opened == CHOOSE k \in EventsOfType(r, "thinking_start") :
                      Events(r)[k].step = frames[r].iterations
    IN  Suffix(Events(r), opened + 1)

\* While the model's output is streaming: nothing is yielded before the
\* accumulated output holds the marker; from then on the iteration has
\* yielded one answer_start and after it answer_token events only.
ScanSoFar(r) ==
    frames[r].pc = "streaming" =>
        LET tail == IterationTail(r) IN
        IF ~Contains(frames[r].llm_output, FinalMarker)
        THEN tail = <<>> /\ ~frames[r].is_final_answer
        ELSE /\ frames[r].is_final_answer
             /\ tail # <<>> /\ tail[1].type = "answer_start"
             /\ \A k \in 2..Len(tail) : tail[k].type = "answer_token"

\* What one arriving fragment adds to the events of call r.
FragmentEffect(r) ==
    LET old == frames[r].llm_output
        new == frames'[r].llm_output
        token == Suffix(new, Len(old) + 1)
        added == Suffix(frames'[r].events, Len(frames[r].events) + 1)
        step == frames[r].iterations
        rest == LStrip(Suffix(new, Find(new, FinalMarker) + Len(FinalMarker)))
    IN  (frames[r].pc = "streaming" /\ frames'[r].pc = "streaming" /\ new # old) =>
            /\ SubSeq(new, 1, Len(old)) = old
            /\ ~Contains(new, FinalMarker) => added = <<>>
            /\ (~Contains(old, FinalMarker) /\ Contains(new, FinalMarker)) =>
                  added = <<StreamEvent("answer_start", <<>>, step)>> \o
                          (IF rest = <<>> THEN <<>>
                           ELSE <<StreamEvent("answer_token", rest, step)>>)
            /\ Contains(old, FinalMarker) =>
                  added = <<StreamEvent("answer_token", token, step)>>

\* C19: in an iteration of run_stream(), a fragment that leaves the
\* accumulated output without the complete marker yields no event; the
\* fragment that completes the marker, also one that holds only its end,
\* yields the iteration's one answer_start (and the text after the marker,
\* if any, as an answer_token); every answer_token comes after the
\* answer_start of its step; every later fragment yields one answer_token.
C19_MarkerScan ==
    /\ [](\A r \in Runs :
             /\ ScanSoFar(r)
             /\ \A s \in 1..MaxIterations + 1 :
                   Cardinality({k \in EventsOfType(r, "answer_start") :
                                   Events(r)[k].step = s}) <= 1
             /\ \A k \in EventsOfType(r, "answer_token") :
                   \E j \in EventsOfType(r, "answer_start") :
                       j < k /\ Events(r)[j].step = Events(r)[k].step)
    /\ [][\A r \in Runs : FragmentEffect(r)]_vars

\* The marker was completed by a fragment that held only its end, and a
\* later fragment has been yielded as an answer_token.
C19_Witness ==
    /\ frames[1].pc = "streaming" /\ frames[1].marker_split
    /\ Len(IterationTail(1)) >= 2
    /\ IterationTail(1)[Len(IterationTail(1))].data # frames[1].final_answer_buffer

\* Call r is over: it returned a response, or it raised.
Over(r) == frames[r].pc \in {"done", "raised"}

\* The responses of the two calls agree on every field, the transcript
\* compared by its steps.
SameResponse ==
    /\ Result(2).success = Result(1).success
    /\ Result(2).answer = Result(1).answer
    /\ Transcript(2) = Transcript(1)
    /\ Result(2).tools_used = Result(1).tools_used
    /\ Result(2).iterations = Result(1).iterations
    /\ Result(2).final_reflection = Result(1).final_reflection

\* Every thinking_end of the stream carries the whole output of its
\* iteration.
ThinkingEndCarriesOutput ==
    \A k \in EventsOfType(2, "thinking_end") :
        /\ Events(2)[k].step <= Len(frames[1].outputs)
        /\ Events(2)[k].data = frames[1].outputs[Events(2)[k].step]

\* C20: for one script (model outputs, model failures, tool results, critic
\* replies), when run() has returned a response and run_stream() is over,
\* run_stream() has returned a response equal to run()'s in success, answer,
\* transcript, tools_used, iterations and reflection suggestion; and each
\* thinking_end carries the full text of its iteration.
C20_StreamEqualsRun ==
    /\ ThinkingEndCarriesOutput
    /\ (Returned(1) /\ Over(2)) => (Returned(2) /\ SameResponse)

\* The same for scripts in which no tool returns None as its output.
C20_WithTextOutputs ==
    /\ ThinkingEndCarriesOutput
    /\ (/\ Returned(1) /\ Over(2)
        /\ \A j \in 1..Len(frames[1].invoked) :
              frames[1].invoked[j].kind = "success" =>
                  ~frames[1].invoked[j].output.isNone)
          => (Returned(2) /\ SameResponse)

\* The two calls met the same model outputs, the same model failure and the
\* same tool results.
SameLoopScript ==
    /\ frames[1].outputs = frames[2].outputs
    /\ frames[1].failed_at = frames[2].failed_at
    /\ frames[1].invoked = frames[2].invoked

\* The critic's step of call r leaves the loop's work as it is: no further
\* model call, tool invocation or iteration, and the call then returns.
CriticStepAddsNothing(r) ==
    frames[r].pc = "reflect" =>
        /\ frames'[r].pc \in {"reflect", "done"}
        /\ frames'[r].prompts = frames[r].prompts
        /\ frames'[r].outputs = frames[r].outputs
        /\ frames'[r].invoked = frames[r].invoked
        /\ frames'[r].tools_used = frames[r].tools_used
        /\ frames'[r].iterations = frames[r].iterations

\* C21: two calls with the same model outputs and tool results return
\* responses with the same success, answer, transcript, tools_used and
\* iterations, whatever the critic did in each (approved, rejected, raised,
\* or was not consulted because reflection was off); a suggestion is
\* attached only by a consulted critic; and the critic's step makes no
\* further model call or tool invocation.
C21_CriticOnlyAnnotates ==
    /\ []((Returned(1) /\ Returned(2) /\ SameLoopScript) =>
             /\ Result(1).success = Result(2).success
             /\ Result(1).answer = Result(2).answer
             /\ Transcript(1) = Transcript(2)
             /\ Result(1).tools_used = Result(2).tools_used
             /\ Result(1).iterations = Result(2).iterations)
    /\ [](\A r \in Runs :
             (Returned(r) /\ ~Result(r).final_reflection.isNone) =>
                 frames[r].critic_calls = 1)
    /\ [][\A r \in Runs : CriticStepAddsNothing(r)]_vars

\* The same script twice: the first call's answer was rejected by the
\* critic, the second call ran with reflection off.
C21_Witness ==
    /\ Returned(1) /\ Returned(2) /\ SameLoopScript
    /\ Result(1).success
    /\ ~Result(1).final_reflection.isNone
    /\ frames[2].critic_calls = 0
    /\ Result(2).final_reflection.isNone

\* The critic's model call of call r raised.
CriticRaised(r) ==
    /\ frames[r].critic_replies # <<>>
    /\ frames[r].critic_replies[1].kind = "raise"

\* C22: when the critic's model call raises, the call still returns
\* success = True with the final answer the loop produced and no reflection
\* suggestion, in state COMPLETED; the stream yields no `error` and no
\* `reflection_result` and ends with `done`.
C22_CriticFailsOpen ==
    \A r \in Runs :
        CriticRaised(r) =>
            /\ frames[r].pc = "done" /\ Returned(r)
            /\ Result(r).success
            /\ Result(r).answer = FinalText(frames[r].final_answer.text)
            /\ frames[r].final_answer.text # <<>>
            /\ Result(r).final_reflection = None
            /\ state = "completed"
            /\ EventsOfType(r, "error") = {}
            /\ EventsOfType(r, "reflection_result") = {}
            /\ frames[r].mode = "stream" =>
                  Events(r)[Len(Events(r))].type = "done"

C22_Witness ==
    /\ CriticRaised(1) /\ Returned(1)
    /\ frames[1].mode = "stream"
    /\ Len(frames[1].tools_used) = 1

\* Some output of call r parsed as a final answer.
FinalAnswerProduced(r) ==
    \E i \in 1..Len(frames[r].outputs) : ParsedAsFinal(r, i)

\* State REFLECTING is entered exactly while the critic is being consulted;
\* a stream yields one `reflecting` per consultation.
ReflectingIffConsulted(r) ==
    /\ (state = "reflecting") <=> (\E q \in Runs : frames[q].pc = "reflect")
    /\ frames[r].mode = "stream" =>
          Cardinality(EventsOfType(r, "reflecting")) =
              frames[r].critic_calls + (IF frames[r].pc = "reflect" THEN 1 ELSE 0)

\* C23: a call that has returned has consulted the critic exactly once if
\* one of its outputs was a final answer and enable_reflection is set, and
\* not at all otherwise; state REFLECTING is entered exactly then.
C23_CriticCalledOnce ==
    \A r \in Runs :
        /\ ReflectingIffConsulted(r)
        /\ Returned(r) =>
              frames[r].critic_calls =
                  (IF FinalAnswerProduced(r) /\ config.enable_reflection
                   THEN 1 ELSE 0)

\* The same with "a final answer" read as a non-empty final answer.
C23_OnceForNonEmptyAnswer ==
    \A r \in Runs :
        /\ ReflectingIffConsulted(r)
        /\ Returned(r) =>
              frames[r].critic_calls =
                  (IF Truthy(frames[r].final_answer) /\ config.enable_reflection
                   THEN 1 ELSE 0)

\* What follows `Action Input:` in the response, stripped.
Remaining ==
    Strip(Suffix(response, Find(response, InputMarker) + Len(InputMarker)))

\* Whether a brace occurs inside a string literal of s[1..end].
RECURSIVE BraceInString(_, _, _, _)
BraceInString(s, i, end, quoted) ==
    IF i > end THEN FALSE
    ELSE IF s[i] = "\"" THEN BraceInString(s, i + 1, end, ~quoted)
    ELSE IF quoted /\ s[i] \in {"{", "}"} THEN TRUE
    ELSE BraceInString(s, i + 1, end, quoted)

\* The object that the strict decoder reads at the start of Remaining.
ObjectAhead == ScanValue(Remaining, 1)

\* C24: when `Action Input:` is followed by an object (nested or not) with
\* no brace inside a string, the parser's extract is exactly the text from
\* the opening brace through its matching closing brace, whatever follows,
\* and decoding the extract strictly gives that object.
C24_BraceScanExtractsObject ==
    (/\ parsed # <<>>
     /\ Contains(response, InputMarker)
     /\ Remaining # <<>> /\ Remaining[1] = "{"
     /\ ObjectAhead.ok
     /\ ~BraceInString(Remaining, 1, ObjectAhead.end - 1, FALSE)) =>
        /\ parsed[1].action_name = Some(<<"s">>)
        /\ parsed[1].action_input =
              DictInput(SubSeq(Remaining, 1, ObjectAhead.end - 1))
        /\ JsonLoads(parsed[1].action_input.text).ok
        /\ JsonLoads(parsed[1].action_input.text).value = ObjectAhead.value

\* An object nested to MaxDepth with two items, followed by text that holds
\* braces, has been parsed.
C24_Witness ==
    /\ parsed # <<>>
    /\ ObjectAhead.ok
    /\ ~BraceInString(Remaining, 1, ObjectAhead.end - 1, FALSE)
    /\ ObjectAhead.end <= Len(Remaining)
    /\ Len(ObjectAhead.value.items) = 2
    /\ ObjectAhead.value.items[1].value.type = "object"
    /\ ObjectAhead.value.items[1].value.items # <<>>
    /\ ObjectAhead.value.items[1].value.items[1].value.type = "object"

\* The tool invocations call r made in iteration i.
InvocationsAt(r, i) ==
    {j \in 1..Len(frames[r].invoked) : frames[r].invoked[j].step = i}

\* Iteration i of call r named a registered tool.
NamesRegisteredTool(r, i) ==
    /\ ParsedAsAction(r, i)
    /\ ParseAction(frames[r].outputs[i]).action_name.text \in tools

\* One invocation in each iteration that named a registered tool (once the
\* iteration is past its tool step), none in any other iteration.
OneInvocationPerAction(r) ==
    \A i \in 1..Len(frames[r].outputs) :
        Cardinality(InvocationsAt(r, i)) =
            (IF NamesRegisteredTool(r, i) /\ ~(i = frames[r].iterations /\ frames[r].pc = "act")
             THEN 1 ELSE 0)

\* A step of call r that invokes a tool does so after the model call of its
\* iteration is complete and makes no model call itself; a step that makes
\* a model call invokes no tool.
NoOverlap(r) ==
    LET old == frames[r]
        new == frames'[r]
    IN  /\ Len(new.invoked) > Len(old.invoked) =>
              /\ Len(new.invoked) = Len(old.invoked) + 1
              /\ new.invoked[Len(new.invoked)].step = old.iterations
              /\ Len(old.outputs) = old.iterations
              /\ Len(old.prompts) = old.iterations
              /\ new.prompts = old.prompts /\ new.outputs = old.outputs
              /\ new.iterations = old.iterations
        /\ (new.prompts # old.prompts \/ new.outputs # old.outputs) =>
              new.invoked = old.invoked

\* C25: in a call, every iteration whose output names a registered tool
\* makes exactly one tool invocation and no iteration makes more; each
\* invocation comes after the model call of its iteration has completed
\* and before the next model call starts.
C25_OneInvocationPerIteration ==
    /\ [](\A r \in Runs :
             /\ OneInvocationPerAction(r)
             /\ \A j \in 1..Len(frames[r].invoked) :
                   /\ frames[r].invoked[j].step <= Len(frames[r].outputs)
                   /\ j > 1 => frames[r].invoked[j - 1].step < frames[r].invoked[j].step)
    /\ [][\A r \in Runs : NoOverlap(r)]_vars

\* A call that invoked the tool in each of its MaxIterations iterations.
C25_Witness ==
    /\ Returned(1)
    /\ Len(frames[1].invoked) = MaxIterations
    /\ \A i \in 1..MaxIterations : InvocationsAt(1, i) # {}

\* The response of call r holds the steps of call r, numbered from 1, and
\* the names of the tools that call r acted with.
OwnResponse(r) ==
    /\ Transcript(r) = frames[r].produced
    /\ \A i \in 1..Len(Transcript(r)) : Transcript(r)[i].step = i
    /\ Range(Result(r).tools_used) = Range(frames[r].tools_used)
    /\ Result(r).iterations = frames[r].iterations

\* C26: of two consecutive calls on one orchestrator, the second response
\* holds only the steps and tool names of the second call, numbered again
\* from 1; and once the first call has returned, nothing the second call
\* does changes the first response: its step list, tools_used, iterations
\* and answer stay as returned.
C26_ConsecutiveRunsIndependent ==
    /\ [](\A r \in Runs : Returned(r) => OwnResponse(r))
    /\ [][Returned(1) =>
             /\ results'[1] = results[1]
             /\ heap'[Result(1).thought_process] = heap[Result(1).thought_process]]_vars

\* Both calls have returned; the first acted with the tool and the second
\* answered at once, each with one step numbered 1 in a list of its own.
C26_Witness ==
    /\ Returned(1) /\ Returned(2)
    /\ Result(1).thought_process # Result(2).thought_process
    /\ Result(1).tools_used # <<>> /\ Result(2).tools_used = <<>>
    /\ Len(Transcript(1)) = 1 /\ Len(Transcript(2)) = 1
    /\ Transcript(1) # Transcript(2)

\* tools_used of a response names each tool at most once.
NoDuplicates(seq) ==
    \A i \in 1..Len(seq) : \A j \in 1..Len(seq) : seq[i] = seq[j] => i = j

\* The tool names that the steps of a transcript have as their action.
ActionNames(transcript) ==
    {transcript[i].action.text :
        i \in {k \in 1..Len(transcript) : HasCapabilityAction(transcript[k])}}

\* C27: on every return path the tools_used of the response names each tool
\* at most once, and names exactly the tools that the steps of the
\* transcript have as their action.
C27_ToolsUsedIsASet ==
    \A r \in Runs :
        Returned(r) =>
            /\ NoDuplicates(Result(r).tools_used)
            /\ Range(Result(r).tools_used) = ActionNames(Transcript(r))

\* The same for the calls in which no model call failed.
C27_SetOnNormalReturn ==
    \A r \in Runs :
        (Returned(r) /\ frames[r].failed_at = 0) =>
            /\ NoDuplicates(Result(r).tools_used)
            /\ Range(Result(r).tools_used) = ActionNames(Transcript(r))

\* Each table still maps every name to the tool first registered under it.
AgentKeepsOriginals ==
    /\ DOMAIN registry.agent_tools = DOMAIN registry.first_agent
    /\ \A n \in DOMAIN registry.first_agent :
          registry.agent_tools[n] = registry.first_agent[n]

RegistryKeepsOriginals ==
    /\ DOMAIN registry.registry_tools = DOMAIN registry.first_registry
    /\ \A n \in DOMAIN registry.first_registry :
          registry.registry_tools[n] = registry.first_registry[n]
    /\ \A c \in ToolCategories :
          /\ NoDuplicates(registry.categories[c])
          /\ \A i \in 1..Len(registry.categories[c]) :
                registry.first_registry[registry.categories[c][i]].category = c

\* C28: a registration under a name that is already registered fails, in
\* ToolRegistry and in the orchestrator's own table, and each table still
\* maps every name to the tool first registered under it.
C28_DuplicateRegistrationFails ==
    /\ registry.last.duplicate => registry.last.raised
    /\ RegistryKeepsOriginals
    /\ AgentKeepsOriginals

\* The same for ToolRegistry alone.
C28_ToolRegistryRefusesDuplicate ==
    /\ (registry.last.op = "register" /\ registry.last.duplicate) =>
          registry.last.raised
    /\ RegistryKeepsOriginals


(***************************************************************************)
(* C29: a consumer that stops pulling                                      *)
(***************************************************************************)

\* The consumer has stopped pulling before `done` was delivered.
AbandonedRun(r) == frames[r].abandoned /\ frames[r].pc # "at_done"

\* Once the consumer has stopped, no model call, critic call or tool
\* invocation starts.
NothingStartsAfterStop(r) ==
    frames[r].abandoned =>
        /\ frames'[r].prompts = frames[r].prompts
        /\ frames'[r].critic_calls = frames[r].critic_calls
        /\ frames'[r].invoked = frames[r].invoked

\* Every tool invocation follows an `action` event of its iteration after
\* which the generator has been resumed.
InvokedAfterActionDelivered(r) ==
    LET f == frames[r] IN
    \A i \in 1..Len(f.invoked) :
        \E k \in 1..Len(f.events) :
            /\ f.events[k].type = "action"
            /\ f.events[k].step = f.invoked[i].step
            /\ k < Len(f.events) \/ f.pc # "at_action"

\* C29: if the consumer of run_stream() stops pulling after any event, no
\* model call and no tool invocation starts afterwards; a tool is never
\* invoked before its `action` event has been delivered; and an abandoned
\* run is never in state COMPLETED.
C29_AbandonedRunStops ==
    /\ [][\A r \in Runs : NothingStartsAfterStop(r)]_vars
    /\ [](\A r \in Runs : InvokedAfterActionDelivered(r))
    /\ [](\A r \in Runs : AbandonedRun(r) => state # "completed")

\* C29, as the code has it: self.state = COMPLETED is set before `meta` is
\* yielded, so that a run abandoned after `meta` is in state COMPLETED, and
\* only such a run.
C29_CompletedOnlyAfterMeta ==
    /\ [][\A r \in Runs : NothingStartsAfterStop(r)]_vars
    /\ [](\A r \in Runs : InvokedAfterActionDelivered(r))
    /\ [](\A r \in Runs : AbandonedRun(r) =>
              (state = "completed" <=> frames[r].pc = "at_meta"))

\* The consumer stopped after the `action` event of a registered tool: the
\* tool has not been invoked.
C29_Witness ==
    /\ frames[1].abandoned
    /\ frames[1].pc = "at_action"
    /\ frames[1].thought_step.action.text \in tools
    /\ frames[1].invoked = <<>>

\* The consumer stopped after `meta`.
C29_StoppedAfterMeta ==
    /\ frames[1].abandoned
    /\ frames[1].pc = "at_meta"
    /\ state = "completed"


(***************************************************************************)
(* C30: the planner                                                        *)
(***************************************************************************)

\* A call of _create_plan with planning disabled, or whose model call
\* failed, returned the empty plan.
EmptyPlanOnFailure ==
    plan.called /\ (~config.enable_planning \/ plan.failed) =>
        plan.steps = <<>> /\ ~plan.raised

\* No step of run() or run_stream() is a call of the planner.
RunLeavesPlanAlone == frames' # frames => plan' = plan

\* The model calls of a call: one per iteration, and at most one of the
\* critic.
OneModelCallPerIteration(r) ==
    /\ Len(frames[r].prompts) = frames[r].iterations
    /\ frames[r].critic_calls <= 1

\* C30: the planner returns an empty plan and does not raise when planning
\* is disabled or its model call fails, and run() and run_stream() never
\* call it: whatever enable_planning is, a call makes one model call per
\* iteration and at most one critic call.
C30_PlannerStandsAlone ==
    /\ []EmptyPlanOnFailure
    /\ [][RunLeavesPlanAlone]_vars
    /\ [](\A r \in Runs : OneModelCallPerIteration(r))

\* With planning enabled, the planner's model call failed, and a call then
\* ran two iterations and consulted the critic.
C30_Witness ==
    /\ config.enable_planning
    /\ plan.called /\ plan.failed
    /\ frames[1].pc = "done"
    /\ Len(frames[1].prompts) = 2
    /\ frames[1].critic_calls = 1

\* The planner parsed a reply into two steps.
C30_TwoSteps == plan.called /\ Len(plan.steps) = 2


(***************************************************************************)
(* C31: the confidence of an IntentAnalysis                                *)
(***************************************************************************)

\* 0 <= confidence <= 1.
InUnitInterval(confidence) == AtLeast(confidence, 0) /\ AtMost(confidence, 100)

\* C31: every IntentAnalysis returned by analyze_intent, for any model reply
\* and on the failure fallback, has a confidence within [0, 1].
C31_ConfidenceInUnitInterval ==
    analysis.called => InUnitInterval(analysis.result.confidence)

\* The fallback of a failed analysis is multi_step with confidence 0.5.
C31_FallbackConfidence ==
    analysis.called /\ analysis.result.fallback =>
        /\ analysis.result.intent = MULTI_STEP
        /\ analysis.result.confidence = Finite(5, -1)


(***************************************************************************)
(* C32: the lenient scan                                                   *)
(***************************************************************************)

\* The matches of the three patterns in the order the parser scans them.
ScanOrder(input_text) ==
    FindPairs(input_text, 1, "string") \o FindPairs(input_text, 1, "number")
        \o FindPairs(input_text, 1, "bool")

\* The parser fell back to the lenient scan.
StrictParseFailed ==
    /\ parsed # <<>>
    /\ ~parsed[1].action_name.isNone
    /\ parsed[1].action_input.kind = "dict"
    /\ parsed[1].action_input.text # <<>>
    /\ ~JsonLoads(parsed[1].action_input.text).ok

\* The map has the keys of the matches, each with the value of its first
\* match.
FirstMatchWins(items, scan) ==
    /\ {items[k].key : k \in 1..Len(items)} = {scan[k].key : k \in 1..Len(scan)}
    /\ \A k \in 1..Len(items) :
          LET hits == {j \in 1..Len(scan) : scan[j].key = items[k].key}
              first == CHOOSE j \in hits : \A x \in hits : j <= x
          IN  items[k].value = scan[first].value

\* C32: when strict parsing of the extracted object fails, the map is built
\* from the quoted-string pairs, then the numeric pairs, then the boolean
\* pairs, and for every key the first match of that scan order wins.
C32_FirstMatchWins ==
    StrictParseFailed =>
        FirstMatchWins(ActionInput(parsed[1].action_input.text),
                       ScanOrder(parsed[1].action_input.text))

\* What the code does: a key with string matches takes the last of them;
\* any other key takes its first numeric match, else its first boolean one.
C32_LastStringElseFirst ==
    StrictParseFailed =>
        LET text == parsed[1].action_input.text
            items == ActionInput(text)
            strings == FindPairs(text, 1, "string")
            others == FindPairs(text, 1, "number") \o FindPairs(text, 1, "bool")
        IN  /\ {items[k].key : k \in 1..Len(items)} =
                   {ScanOrder(text)[k].key : k \in 1..Len(ScanOrder(text))}
            /\ \A k \in 1..Len(items) :
                  LET s_hits == {j \in 1..Len(strings) :
                                    strings[j].key = items[k].key}
                      o_hits == {j \in 1..Len(others) :
                                    others[j].key = items[k].key}
                  IN  items[k].value =
                         IF s_hits # {}
                         THEN strings[CHOOSE j \in s_hits :
                                         \A x \in s_hits : j >= x].value
                         ELSE others[CHOOSE j \in o_hits :
                                        \A x \in o_hits : j <= x].value


(***************************************************************************)
(* C33: the running prompt                                                 *)
(***************************************************************************)

\* What iteration k adds to the prompt: the raw output, then the
\* observation and the continue instruction (action) or the corrective
\* instruction (no action).
Appended(r, k) ==
    <<PromptPart("llm_output", frames[r].outputs[k], NullObs)>> \o
        (IF ParsedAsAction(r, k)
         THEN <<PromptPart("observation", <<>>,
                           frames[r].produced[k].observation),
                PromptPart("continue", <<>>, NullObs)>>
         ELSE <<PromptPart("corrective", <<>>, NullObs)>>)

\* C33: within one run the prompt is append-only. The first model call gets
\* the initial prompt; the prompt of call k+1 is the prompt of call k
\* followed by the raw output of call k and then the observation with the
\* continue instruction (action) or the corrective instruction (no action);
\* so every earlier prompt is a prefix of every later one and of the prompt
\* being built.
C33_PromptAppendOnly ==
    \A r \in Runs :
        LET f == frames[r] IN
        /\ Len(f.prompts) > 0 => f.prompts[1] = ReactPrompt
        /\ \A k \in 1..Len(f.prompts) :
              /\ f.pc \notin {"idle"} => IsPrefix(f.prompts[k], f.current_prompt)
              /\ k < Len(f.prompts) =>
                    /\ k <= Len(f.outputs) /\ k <= Len(f.produced)
                    /\ ~ParsedAsFinal(r, k)
                    /\ f.prompts[k + 1] = f.prompts[k] \o Appended(r, k)

\* A streamed call that returned after two model calls, the first of which
\* named a tool that ran and gave back a text.
C33_Witness ==
    /\ Returned(1)
    /\ frames[1].mode = "stream"
    /\ Len(frames[1].prompts) = 2
    /\ ParsedAsAction(1, 1)
    /\ frames[1].produced[1].observation.kind = "output"
    /\ Len(frames[1].prompts[2]) = 4

\* The same after a first output without an action.
C33_WitnessCorrective ==
    /\ Returned(1)
    /\ Len(frames[1].prompts) = 2
    /\ ParsedAsNoAction(1, 1)
    /\ Len(frames[1].prompts[2]) = 3


(***************************************************************************)
(* C34: the transitions of self.state                                      *)
(***************************************************************************)

\* A change of self.state in a step of call 1 is one of: to Thinking at the
\* start; Thinking to Acting with an action parsed from the output; Acting
\* to Thinking with the step and its observation recorded; Thinking to
\* Reflecting with a final answer; Thinking to Failed with a failed model
\* call; Thinking or Reflecting to Completed with the response returned.
StateTransition ==
    LET f == frames[1]
        g == frames'[1]
    IN  state' # state =>
           \/ /\ state' = "thinking"
              /\ f.pc = "idle"
           \/ /\ state = "thinking" /\ state' = "acting"
              /\ Len(g.outputs) = Len(f.outputs) + 1
              /\ ~ParseAction(g.outputs[Len(g.outputs)]).action_name.isNone
              /\ ParseAction(g.outputs[Len(g.outputs)]).action_name
                     # Some(FinalSentinel)
           \/ /\ state = "acting" /\ state' = "thinking"
              /\ heap'[thought_history'] =
                     Append(heap[thought_history], g.thought_step)
              /\ g.thought_step.observation # NullObs
           \/ /\ state = "thinking" /\ state' = "reflecting"
              /\ ~f.final_answer.isNone
              /\ results' = results
           \/ /\ state = "thinking" /\ state' = "error"
              /\ g.failed_at = g.iterations /\ f.failed_at = 0
              /\ results[1] = <<>> /\ results'[1] # <<>>
           \/ /\ state \in {"thinking", "reflecting"} /\ state' = "completed"
              /\ g.failed_at = 0
              /\ results[1] = <<>> /\ results'[1] # <<>>

\* C34: self.state changes only along these transitions, and when the call
\* returns it is Failed if and only if a model call failed and Completed
\* otherwise.
C34_StateTransitions ==
    /\ [][StateTransition]_vars
    /\ [](Returned(1) =>
             state = IF frames[1].failed_at > 0 THEN "error" ELSE "completed")

\* run() returned Completed after an iteration that ran a tool and a
\* reflection pass.
C34_Witness ==
    /\ Returned(1)
    /\ frames[1].mode = "run"
    /\ state = "completed"
    /\ Len(frames[1].invoked) = 1
    /\ frames[1].critic_calls = 1

\* run() returned Failed in its second iteration, after a tool ran.
C34_WitnessFailed ==
    /\ Returned(1)
    /\ frames[1].mode = "run"
    /\ state = "error"
    /\ frames[1].failed_at = 2
    /\ Len(frames[1].invoked) = 1


(***************************************************************************)
(* C35: an action without parameters                                       *)
(***************************************************************************)

\* Output i names a tool and carries no object after `Action Input:`.
ActionWithoutObject(r, i) ==
    /\ ParsedAsAction(r, i)
    /\ InputMatch(frames[r].outputs[i]).isNone

\* The tool branch of iteration i is over.
ToolBranchDone(r, i) ==
    \/ i < frames[r].iterations
    \/ i = frames[r].iterations /\ frames[r].pc # "act"

\* C35: an output with `Action: <name>` and no `Action Input:` block, or one
\* whose content does not start with an object, parses as that action with
\* an empty parameter map, and a registered tool of that name is still
\* executed, with no parameters.
C35_EmptyMapStillInvokes ==
    \A r \in Runs :
        \A i \in 1..Len(frames[r].outputs) :
            ActionWithoutObject(r, i) =>
                LET p == ParseAction(frames[r].outputs[i]) IN
                /\ p.action_input.kind = "dict"
                /\ p.action_input.text = <<>>
                /\ (ToolBranchDone(r, i) /\ p.action_name.text \in tools) =>
                      \E j \in 1..Len(frames[r].invoked) :
                          /\ frames[r].invoked[j].step = i
                          /\ frames[r].invoked[j].name = p.action_name.text
                          /\ frames[r].invoked[j].input = <<>>

\* A call that returned after two tool executions: the first with no
\* parameters from a block that holds plain text, the second with the
\* parameter of an object.
C35_Witness ==
    /\ Returned(1)
    /\ Len(frames[1].invoked) = 2
    /\ frames[1].outputs[1] = OutActionInputText
    /\ frames[1].invoked[1].input = <<>>
    /\ frames[1].outputs[2] = OutActionInputObject
    /\ Len(frames[1].invoked[2].input) = 1
    /\ frames[1].invoked[2].input[1].key = <<"a">>


(***************************************************************************)
(* C36: success and the answer                                             *)
(***************************************************************************)

\* The text of the final answer the parser found in the last output.
ParsedFinalText(r) ==
    ParseAction(frames[r].outputs[Len(frames[r].outputs)]).action_input.text

\* The last output of the call parsed as a final answer.
EndedWithFinalAnswer(r) ==
    /\ frames[r].failed_at = 0
    /\ Len(frames[r].outputs) > 0
    /\ ParsedAsFinal(r, Len(frames[r].outputs))

\* C36: for every response of run() and run_stream(), success is true if
\* and only if the answer is the text of a parsed final answer; the
\* exhaustion message comes only with success = false, whatever the final
\* answer's text, the empty one included.
C36_SuccessIffFinalAnswer ==
    \A r \in Runs :
        Returned(r) =>
            /\ Result(r).success <=>
                   (/\ EndedWithFinalAnswer(r)
                    /\ Result(r).answer = FinalText(ParsedFinalText(r)))
            /\ Result(r).answer = ExhaustedMessage => ~Result(r).success

\* What the code gives: success tells that a final answer was parsed; the
\* answer is its text when that text is not empty, and the exhaustion
\* message otherwise.
C36_SuccessIffParsed ==
    \A r \in Runs :
        Returned(r) =>
            /\ Result(r).success <=> EndedWithFinalAnswer(r)
            /\ (EndedWithFinalAnswer(r) /\ ParsedFinalText(r) # <<>>) =>
                   Result(r).answer = FinalText(ParsedFinalText(r))
            /\ (EndedWithFinalAnswer(r) /\ ParsedFinalText(r) = <<>>) =>
                   Result(r).answer = ExhaustedMessage
            /\ (~EndedWithFinalAnswer(r) /\ frames[r].failed_at = 0) =>
                   Result(r).answer = ExhaustedMessage


(***************************************************************************)
(* C37: the marker scan of the stream and the parser                       *)
(***************************************************************************)

\* The positions of the events of one type and step in the stream of call r.
EventsAt(r, type, step) ==
    {k \in 1..Len(frames[r].events) :
        /\ frames[r].events[k].type = type
        /\ frames[r].events[k].step = step}

\* Every `answer` event comes after an `answer_start` of the same step.
AnswerHasStart(r) ==
    \A k \in 1..Len(frames[r].events) :
        frames[r].events[k].type = "answer" =>
            \E j \in EventsAt(r, "answer_start", frames[r].events[k].step) :
                j < k

\* C37: in run_stream(), when `answer_start` is emitted in an iteration
\* whose model call completes, the iteration ends with an `answer` event
\* and emits neither `action` nor `observation`; and every `answer` event
\* is preceded by an `answer_start` of the same step.
C37_ScanAgreesWithParser ==
    \A r \in Runs :
        frames[r].mode = "stream" =>
            /\ AnswerHasStart(r)
            /\ \A i \in 1..Len(frames[r].outputs) :
                  EventsAt(r, "answer_start", i) # {} =>
                      /\ EventsAt(r, "answer", i) # {}
                      /\ EventsAt(r, "action", i) = {}
                      /\ EventsAt(r, "observation", i) = {}

\* What the code gives: `answer_start` is emitted exactly for an output
\* that contains the marker, `answer` exactly for one the parser reads as a
\* final answer, and the second always has the first before it.
C37_StartPerMarker ==
    \A r \in Runs :
        frames[r].mode = "stream" =>
            /\ AnswerHasStart(r)
            /\ \A i \in 1..Len(frames[r].outputs) :
                  /\ EventsAt(r, "answer_start", i) # {} <=>
                         Contains(frames[r].outputs[i], FinalMarker)
                  /\ EventsAt(r, "answer", i) # {} <=> ParsedAsFinal(r, i)


(***************************************************************************)
(* C38: the streamed answer                                                *)
(***************************************************************************)

\* The payloads of the `answer_token` events of one step, concatenated.
RECURSIVE AnswerTokens(_, _)
AnswerTokens(events, step) ==
    IF events = <<>> THEN <<>>
    ELSE (IF Head(events).type = "answer_token" /\ Head(events).step = step
          THEN Head(events).data ELSE <<>>)
             \o AnswerTokens(Tail(events), step)

\* Everything after the first marker of output i.
AfterMarker(r, i) ==
    Suffix(frames[r].outputs[i],
           Find(frames[r].outputs[i], FinalMarker) + Len(FinalMarker))

\* The steps of call r that ended with an `answer` event.
AnsweredSteps(r) ==
    {i \in 1..Len(frames[r].outputs) : EventsAt(r, "answer", i) # {}}

AnswerPayload(r, i) ==
    frames[r].events[CHOOSE k \in EventsAt(r, "answer", i) : TRUE].data

\* C38: in an iteration of run_stream() that ends with an `answer` event,
\* the concatenation of the `answer_token` payloads holds every character
\* that follows the first marker exactly once, and after trimming it equals
\* the payload of the `answer` event, for every fragmentation.
C38_TokensCarryWholeTail ==
    \A r \in Runs :
        \A i \in AnsweredSteps(r) :
            /\ AnswerTokens(frames[r].events, i) = AfterMarker(r, i)
            /\ Strip(AnswerTokens(frames[r].events, i)) = AnswerPayload(r, i)

\* C38, amended: the concatenation of the `answer_token` payloads is the
\* text that follows the first marker less some or all of its leading
\* whitespace (none of the other characters is lost, none is emitted
\* twice), and after trimming it equals the payload of the `answer` event,
\* for every fragmentation.
C38_TokensCarryTailLessLeadingBlanks ==
    \A r \in Runs :
        \A i \in AnsweredSteps(r) :
            LET tokens == AnswerTokens(frames[r].events, i)
                tail == AfterMarker(r, i)
            IN  /\ Len(tokens) <= Len(tail)
                /\ tokens = Suffix(tail, Len(tail) - Len(tokens) + 1)
                /\ Len(LStrip(tail)) <= Len(tokens)
                /\ Strip(tokens) = AnswerPayload(r, i)
                /\ Strip(tail) = AnswerPayload(r, i)

\* The answer with blanks around it arrived in three fragments: the marker
\* with one blank, the second blank with the first letter, and the rest; the
\* tokens lack the first blank only.
C38_Witness ==
    /\ Returned(1)
    /\ frames[1].outputs = <<OutFinalSpaced>>
    /\ 1 \in AnsweredSteps(1)
    /\ Cardinality(EventsAt(1, "answer_token", 1)) = 2
    /\ AnswerTokens(frames[1].events, 1) = <<" ", "x", " ", "y", " ">>
    /\ AnswerPayload(1, 1) = <<"x", " ", "y">>


(***************************************************************************)
(* C39: smart_query                                                        *)
(***************************************************************************)

\* The cases in which smart_query answers without the reasoning loop.
BypassCase ==
    LET a == analysis.result IN
    \/ a.intent = CONVERSATION
    \/ a.intent = DIRECT_ANSWER
    \/ /\ a.intent = KNOWLEDGE_BASE
       /\ AtLeast(a.confidence, 80)
       /\ RagSearch \in tools
       /\ smart.rag.called /\ smart.rag.success /\ smart.rag.output # <<>>

\* The classifier's model call raised, or its reply could not be parsed.
ClassifierFailed ==
    \/ analysis.reply.kind = "raise"
    \/ ~ParseAnalysisResult(analysis.reply.text).ok

\* smart_query calls run() at most once, and not at all exactly in the
\* bypass cases; a failed classifier yields multi_step with confidence 0.5.
RoutedAsClaimed ==
    smart.pc # "idle" =>
        /\ smart.run_calls = (IF BypassCase THEN 0 ELSE 1)
        /\ BypassCase => frames[1].pc = "idle" /\ smart.pc = "returned"
        /\ ClassifierFailed =>
              /\ analysis.result.intent = MULTI_STEP
              /\ analysis.result.confidence = Finite(5, -1)
              /\ ~BypassCase

\* C39: smart_query bypasses the reasoning loop exactly when the classifier
\* returns conversation, or direct_answer, or knowledge_base with confidence
\* >= 0.8 and a registered rag_search that returns success with non-empty
\* output; in every other case, a failure of the classifier included, it
\* calls run() exactly once and returns its result.
C39_BypassOrRunOnce ==
    /\ RoutedAsClaimed
    /\ (smart.pc # "idle" /\ ~BypassCase /\ frames[1].pc \notin {"loop", "act", "post"}) =>
           /\ smart.pc \in {"running", "returned"}
           /\ frames[1].pc = "done"
           /\ smart.pc = "returned" => smart.response = results[1]

\* The routing alone, and the result of run() whenever run() returns one.
C39_RoutingAndResult ==
    /\ RoutedAsClaimed
    /\ (smart.pc = "returned" /\ ~BypassCase) =>
           /\ frames[1].pc = "done"
           /\ smart.response = results[1]


(***************************************************************************)
(* C40: the circuit breaker                                                *)
(***************************************************************************)

\* While OPEN with less than the timeout passed since the last failure the
\* breaker lets no request through.
OpenAdmitsNone ==
    (breaker.last.called /\ breaker.last.state = "open" /\ ~breaker.last.waited)
        => ~breaker.last.allowed

\* C40: with any number of concurrent callers, between an entry into
\* HALF_OPEN and the next exit from it _should_allow_request admits at most
\* half_open_max_calls requests; while OPEN with less than `timeout` passed
\* since the last failure it admits none.
C40_HalfOpenAdmitsAtMostMax ==
    /\ breaker.state = "half_open" =>
           breaker.admitted <= breaker.config.half_open_max_calls
    /\ OpenAdmitsNone

\* What the code gives: half_open_calls stays within half_open_max_calls,
\* but the request that moves the breaker from OPEN to HALF_OPEN is let
\* through without being counted, so one request more is admitted.
C40_HalfOpenAdmitsMaxAndOne ==
    /\ breaker.state = "half_open" =>
           /\ breaker.half_open_calls <= breaker.config.half_open_max_calls
           /\ breaker.admitted = breaker.half_open_calls + 1
    /\ OpenAdmitsNone

\* The fourth request is let through in one HALF_OPEN episode of a breaker
\* with half_open_max_calls = 3, none of them reported yet.
C40_FourAdmitted ==
    /\ breaker.state = "half_open"
    /\ breaker.config.half_open_max_calls = 3
    /\ breaker.admitted = 4
    /\ breaker.in_flight >= 4

====
